---------------------------- MODULE Spec2Model ----------------------------
(***************************************************************************)
(* Model of the playbook execution and result-extraction pipeline of       *)
(* terraform-provider-ansible:                                             *)
(*   - the report parser and failure renderer (AnalyzeJSON),               *)
(*   - the process runner with its two drain goroutines,                   *)
(*   - Execute of the framework resource (diagnostics, queries, state),    *)
(*   - the ansible_playbook2 create/update argument assembly.              *)
(* Every part is a specification of its own over the same variables.       *)
(***************************************************************************)
EXTENDS Integers, Sequences, FiniteSets, TLC

VARIABLES
    buffer,     \* the captured stdout handed to AnalyzeJSON (a JSON document)
    analysis,   \* the last result of AnalyzeJSON: output, hadFailure, err
    resource,   \* the resource whose handler runs: "playbook" or "playbook2"
    config,     \* the attributes of the resource
    rpc,        \* where the goroutine of the handler stands
    args,       \* the arguments of the command line assembled so far
    cdiags,     \* the diagnostics of resourcePlaybook2Create
    rdiags,     \* the diagnostics of the update
    tempFile,   \* the temporary inventory file: "none", "present", "removed"
    launch,     \* the outcome of the pipe creation and of Start
    child,      \* the external process: status, the write it is blocked in
    written,    \* per stream, the lines the child has written so far
    pipe,       \* per stream, the lines in the OS pipe and whether the
                \* parent's read end is closed
    drain,      \* per stream, the state of its processOutput goroutine
    bufs,       \* stdoutBuf and stderrBuf
    waitErr,    \* the error returned by runAnsiblePlay.Wait()
    joined,     \* the update is past wg.Wait()
    accesses,   \* every access to a buffer so far: buffer, actor, kind, phase
    rdata,      \* the resource data (the model) the handler works on
    queries,    \* Execute: the map handed to QueryPlaybookArtifact
    qrun,       \* Execute: the queries visited by the loop, and its error
    runErr,     \* Execute: the error of Run: "none", "exit", "start"
    state,      \* the state the framework handler has written
    life        \* ansible_playbook2 over successive applies: the step of the
                \* apply, the id and the attributes in the Terraform state,
                \* the executions of the playbook

reportVars == <<buffer, analysis>>

setupVars == <<resource, config, rpc, args, cdiags, rdiags, tempFile, launch>>

procVars == <<child, written, pipe, drain, bufs, waitErr, joined, accesses>>

runnerVars == <<setupVars, procVars, rdata>>

execVars == <<queries, qrun, runErr, state>>

vars == <<reportVars, runnerVars, execVars, life>>

(***************************************************************************)
(* Bounds                                                                  *)
(***************************************************************************)
\* plays + tasks + host entries + stats entries of one report
MaxReportSize == 7
\* the lines the child writes in one run, both streams together
MaxLines == 3
\* the applies of one configuration directory
MaxApplies == 3
\* the lines an OS pipe holds before a write to it blocks
PipeCap == 1

\* HostStats.Failures and HostStats.Unreachable: zero or positive (the
\* renderer only compares them with zero)
StatCounts == {0, 1}

HostNames == {"h1", "h2"}
PlayNames == {"P"}
TaskNames == {"T"}

(***************************************************************************)
(* The JSON document: what the bytes of stdout decode to.                  *)
(***************************************************************************)
\* the JSON value found under "msg": absent, or a value of some JSON kind
RawMsg(kind, str, arr) == [kind |-> kind, str |-> str, arr |-> arr]
NoMsg == RawMsg("absent", "", <<>>)

RawResult(failed, msg, reason, stderr, stdout) ==
    [failed |-> failed, msg |-> msg, reason |-> reason,
     stderr |-> stderr, stdout |-> stdout]

RawHost(res, unreachable, results) ==
    [failed |-> res.failed, msg |-> res.msg, reason |-> res.reason,
     stderr |-> res.stderr, stdout |-> res.stdout,
     unreachable |-> unreachable, results |-> results]

EmptyHosts == [h \in {} |-> 0]
EmptyReport == [json |-> TRUE, plays |-> <<>>, stats |-> EmptyHosts]

\* bytes that are no JSON document (a crashed or truncated invocation)
Garbage == [json |-> FALSE, plays |-> <<>>, stats |-> EmptyHosts]

\* AnalyzeJSON has not been called
NoAnalysis == [done |-> FALSE, output |-> <<>>, hadFailure |-> FALSE, err |-> FALSE]

(***************************************************************************)
(* Report parser                                                           *)
(***************************************************************************)
ZeroMsg == [IsString |-> FALSE, StringValue |-> "", ArrayValue |-> <<>>]

\* (a plausible slip: "try string, fall back to list" in reverse, an array of
\* one string taken for that string)
UnmarshalJSONCoercing(raw) ==
    IF raw.kind = "string" \/ (raw.kind = "array" /\ Len(raw.arr) = 1)
    THEN [err |-> FALSE,
          m |-> [IsString |-> TRUE,
                 StringValue |-> IF raw.kind = "string" THEN raw.str ELSE raw.arr[1],
                 ArrayValue |-> <<>>]]
    ELSE IF raw.kind = "array"
    THEN [err |-> FALSE,
          m |-> [IsString |-> FALSE, StringValue |-> "", ArrayValue |-> raw.arr]]
    ELSE [err |-> raw.kind # "null",
          m |-> [IsString |-> FALSE, StringValue |-> "", ArrayValue |-> <<>>]]

\* MsgType.UnmarshalJSON: branch on the first byte of the raw value.
\* A string decodes into StringValue; anything else is decoded as an array,
\* which succeeds for an array and for null and fails for every other kind.
UnmarshalJSON(raw) ==
    IF raw.kind = "string"
    THEN [err |-> FALSE,
          m |-> [IsString |-> TRUE, StringValue |-> raw.str, ArrayValue |-> <<>>]]
    ELSE IF raw.kind = "array"
    THEN [err |-> FALSE,
          m |-> [IsString |-> FALSE, StringValue |-> "", ArrayValue |-> raw.arr]]
    ELSE IF raw.kind = "null"
    THEN [err |-> FALSE, m |-> ZeroMsg]
    ELSE [err |-> TRUE, m |-> ZeroMsg]

\* decoding of the field "msg" of a Result: an absent field keeps the zero value
DecodeMsg(raw) ==
    IF raw.kind = "absent" THEN [err |-> FALSE, m |-> ZeroMsg] ELSE UnmarshalJSON(raw)

\* type Result
DecodeResult(r) ==
    [Failed |-> r.failed, Stderr |-> r.stderr, Stdout |-> r.stdout,
     Msg |-> DecodeMsg(r.msg).m, Reason |-> r.reason]

\* type Host: the embedded Result, Unreachable and Results
DecodeHost(h) ==
    [Result |-> DecodeResult(h), Failed |-> h.failed,
     Unreachable |-> h.unreachable,
     Results |-> [k \in 1..Len(h.results) |-> DecodeResult(h.results[k])]]

\* type Task
DecodeTask(t) ==
    [Name |-> t.name, Hosts |-> [h \in DOMAIN t.hosts |-> DecodeHost(t.hosts[h])]]

\* type Play
DecodePlay(p) ==
    [Name |-> p.name, Tasks |-> [j \in 1..Len(p.tasks) |-> DecodeTask(p.tasks[j])]]

\* every "msg" of the document, of hosts and of their sub-results
MsgsOf(doc) ==
    UNION { UNION { UNION { {doc.plays[i].tasks[j].hosts[h].msg}
                            \cup { doc.plays[i].tasks[j].hosts[h].results[k].msg :
                                   k \in 1..Len(doc.plays[i].tasks[j].hosts[h].results) } :
                            h \in DOMAIN doc.plays[i].tasks[j].hosts } :
                    j \in 1..Len(doc.plays[i].tasks) } :
            i \in 1..Len(doc.plays) }

\* (a plausible slip: the error of UnmarshalJSON dropped, the message left
\* at its zero value)
UnmarshalIgnoringMsgErrors(doc) ==
    IF ~doc.json
    THEN [err |-> TRUE, root |-> [Plays |-> <<>>, Stats |-> EmptyHosts]]
    ELSE [err |-> FALSE,
          root |-> [Plays |-> [i \in 1..Len(doc.plays) |-> DecodePlay(doc.plays[i])],
                    Stats |-> doc.stats]]

\* json.Unmarshal(buffer.Bytes(), &root): an error when the bytes are no JSON
\* or when some UnmarshalJSON returns an error
Unmarshal(doc) ==
    IF ~doc.json \/ (\E raw \in MsgsOf(doc) : DecodeMsg(raw).err)
    THEN [err |-> TRUE, root |-> [Plays |-> <<>>, Stats |-> EmptyHosts]]
    ELSE [err |-> FALSE,
          root |-> [Plays |-> [i \in 1..Len(doc.plays) |-> DecodePlay(doc.plays[i])],
                    Stats |-> doc.stats]]

(***************************************************************************)
(* Failure renderer                                                        *)
(***************************************************************************)
Line(kind, indent, text) == [kind |-> kind, indent |-> indent, text |-> text]

\* printFailedInfo: one line per present field, in the order Msg, Reason,
\* Stderr, Stdout
printFailedInfo(result, indent) ==
    (IF result.Msg.IsString /\ result.Msg.StringValue # ""
     THEN <<Line("Msg", indent, result.Msg.StringValue)>> ELSE <<>>)
    \o (IF result.Reason # "" THEN <<Line("Reason", indent, result.Reason)>> ELSE <<>>)
    \o (IF result.Stderr # "" THEN <<Line("Stderr", indent, result.Stderr)>> ELSE <<>>)
    \o (IF result.Stdout # "" THEN <<Line("Stdout", indent, result.Stdout)>> ELSE <<>>)

\* (a plausible slip: the test of result.Failed left out)
RECURSIVE ResultsOutputAll(_, _)
ResultsOutputAll(results, k) ==
    IF k > Len(results) THEN <<>>
    ELSE printFailedInfo(results[k], 8) \o ResultsOutputAll(results, k + 1)

\* the inner loop over host.Results: the failed sub-results only
RECURSIVE ResultsOutput(_, _)
ResultsOutput(results, k) ==
    IF k > Len(results) THEN <<>>
    ELSE (IF results[k].Failed THEN printFailedInfo(results[k], 8) ELSE <<>>)
         \o ResultsOutput(results, k + 1)

\* (a plausible slip: the headers are printed for every qualifying host and
\* only the failed flag is looked at)
HostBodyEveryHost(st, play, task, hostName) ==
    LET host == task.Hosts[hostName] IN
    IF host.Failed
    THEN [output |-> st.output \o <<Line("PLAY", 0, play.Name),
                                     Line("TASK", 2, task.Name),
                                     Line("HOST", 4, hostName)>>
                               \o printFailedInfo(host.Result, 6),
          playHeaderPrinted |-> TRUE, taskHeaderPrinted |-> TRUE]
    ELSE st

\* (a plausible slip: the print-once flags set for every host visited, so
\* that the headers appear only when the first host visited qualifies)
HostBodyFlagsAlways(st, play, task, hostName) ==
    LET host == task.Hosts[hostName] IN
    IF host.Failed \/ host.Unreachable
    THEN LET o1 == IF ~st.playHeaderPrinted
                   THEN Append(st.output, Line("PLAY", 0, play.Name))
                   ELSE st.output
             o2 == IF ~st.taskHeaderPrinted
                   THEN Append(o1, Line("TASK", 2, task.Name))
                   ELSE o1
             o3 == Append(o2, Line("HOST", 4, hostName))
         IN [output |-> o3 \o printFailedInfo(host.Result, 6),
             playHeaderPrinted |-> TRUE, taskHeaderPrinted |-> TRUE]
    ELSE [st EXCEPT !.playHeaderPrinted = TRUE, !.taskHeaderPrinted = TRUE]

\* the body of the loop over task.Hosts for one host; st carries output and
\* the two print-once flags
HostBody(st, play, task, hostName) ==
    LET host == task.Hosts[hostName] IN
    IF host.Failed \/ host.Unreachable
    THEN LET o1 == IF ~st.playHeaderPrinted
                   THEN Append(st.output, Line("PLAY", 0, play.Name))
                   ELSE st.output
             o2 == IF ~st.taskHeaderPrinted
                   THEN Append(o1, Line("TASK", 2, task.Name))
                   ELSE o1
             o3 == Append(o2, Line("HOST", 4, hostName))
             o4 == o3 \o printFailedInfo(host.Result, 6)
             resultsOutput == ResultsOutput(host.Results, 1)
             o5 == IF Len(host.Results) > 0 /\ Len(resultsOutput) > 0
                   THEN Append(o4, Line("RESULTS", 6, "")) \o resultsOutput
                   ELSE o4
         IN [output |-> o5, playHeaderPrinted |-> TRUE, taskHeaderPrinted |-> TRUE]
    ELSE st

\* for hostName, host := range task.Hosts, in the iteration order hs
RECURSIVE HostLoop(_, _, _, _, _)
HostLoop(st, play, task, hs, n) ==
    IF n > Len(hs) THEN st
    ELSE HostLoop(HostBody(st, play, task, hs[n]), play, task, hs, n + 1)

\* the hosts of a task in the order in which the ranking perm visits them
RECURSIVE Filter(_, _)
Filter(perm, S) ==
    IF perm = <<>> THEN <<>>
    ELSE (IF Head(perm) \in S THEN <<Head(perm)>> ELSE <<>>) \o Filter(Tail(perm), S)

\* (a plausible slip: taskHeaderPrinted declared outside the loop over the
\* tasks, never reset)
RECURSIVE TaskLoopNoReset(_, _, _, _, _)
TaskLoopNoReset(st, play, i, j, order) ==
    IF j > Len(play.Tasks) THEN st
    ELSE LET task == play.Tasks[j]
             hs == Filter(order[<<i, j>>], DOMAIN task.Hosts)
         IN TaskLoopNoReset(HostLoop(st, play, task, hs, 1), play, i, j + 1, order)

\* for _, task := range play.Tasks; taskHeaderPrinted is reset at each task
RECURSIVE TaskLoop(_, _, _, _, _)
TaskLoop(st, play, i, j, order) ==
    IF j > Len(play.Tasks) THEN st
    ELSE LET task == play.Tasks[j]
             st0 == [st EXCEPT !.taskHeaderPrinted = FALSE]
             hs == Filter(order[<<i, j>>], DOMAIN task.Hosts)
         IN TaskLoop(HostLoop(st0, play, task, hs, 1), play, i, j + 1, order)

\* (a plausible slip: playHeaderPrinted declared outside the loop over the
\* plays, never reset)
RECURSIVE PlayLoopNoReset(_, _, _, _)
PlayLoopNoReset(st, plays, i, order) ==
    IF i > Len(plays) THEN st
    ELSE PlayLoopNoReset(TaskLoop(st, plays[i], i, 1, order), plays, i + 1, order)

\* for _, play := range root.Plays; playHeaderPrinted is reset at each play
RECURSIVE PlayLoop(_, _, _, _)
PlayLoop(st, plays, i, order) ==
    IF i > Len(plays) THEN st
    ELSE LET st0 == [st EXCEPT !.playHeaderPrinted = FALSE]
         IN PlayLoop(TaskLoop(st0, plays[i], i, 1, order), plays, i + 1, order)

\* (a plausible slip: >= instead of >)
FailureDetectedGeq(stats) ==
    \E h \in DOMAIN stats : stats[h].failures >= 0 \/ stats[h].unreachable >= 0

\* the first pass: some stats entry has failures > 0 or unreachable > 0
FailureDetected(stats) ==
    \E h \in DOMAIN stats : stats[h].failures > 0 \/ stats[h].unreachable > 0

\* AnalyzeJSON(buffer) under the map iteration orders 'order' (one ranking of
\* the host names for every task): (output, failureDetected, err)
AnalyzeJSON(doc, order) ==
    LET dec == Unmarshal(doc) IN
    IF dec.err
    THEN [output |-> <<>>, hadFailure |-> FALSE, err |-> TRUE]
    ELSE LET failureDetected == FailureDetected(dec.root.Stats)
             st0 == [output |-> <<>>, playHeaderPrinted |-> FALSE,
                     taskHeaderPrinted |-> FALSE]
         IN [output |-> IF failureDetected
                        THEN PlayLoop(st0, dec.root.Plays, 1, order).output
                        ELSE <<>>,
             hadFailure |-> failureDetected,
             err |-> FALSE]

(***************************************************************************)
(* Diagnostics, and Go maps iterated in an arbitrary order                 *)
(***************************************************************************)
Diag(severity, summary, detail) ==
    [severity |-> severity, summary |-> summary, detail |-> detail]

\* (a plausible slip: a warning counted as a failure)
HasErrorOrWarning(ds) == \E n \in 1..Len(ds) : ds[n].severity \in {"Error", "Warning"}

HasError(ds) == \E n \in 1..Len(ds) : ds[n].severity = "Error"

\* the orders in which "for key, val := range m" may visit the keys S
Perms(S) ==
    { s \in [1..Cardinality(S) -> S] : \A a \in S : \E n \in 1..Cardinality(S) : s[n] = a }

(***************************************************************************)
(* Argument assembly of the SDK resources                                  *)
(***************************************************************************)
RECURSIVE Repeat(_, _)
Repeat(str, n) == IF n = 0 THEN "" ELSE str \o Repeat(str, n - 1)

\* providerutils.CreateVerboseSwitch
CreateVerboseSwitch(verbosity) ==
    IF verbosity = 0 THEN "" ELSE "-" \o Repeat("v", verbosity)

\* strings.Join(elems, ",")
RECURSIVE Join(_)
Join(elems) ==
    IF elems = <<>> THEN ""
    ELSE IF Len(elems) = 1 THEN elems[1]
    ELSE elems[1] \o "," \o Join(Tail(elems))

\* for _, varFile := range files { args = append(args, "-e", "@"+varFile) }
RECURSIVE FileArgs(_)
FileArgs(files) ==
    IF files = <<>> THEN <<>>
    ELSE <<"-e", "@" \o Head(files)>> \o FileArgs(Tail(files))

\* an extra var: a string, or a value json.Marshal renders as text
ExtraVar(kind, val) == [kind |-> kind, val |-> val]

\* for key, val := range extraVars, visited in the given order: a string
\* gives key=val, any other value the JSON object {"key":val}
RECURSIVE ExtraVarArgs(_, _)
ExtraVarArgs(extraVars, order) ==
    IF order = <<>> THEN <<>>
    ELSE LET key == Head(order)
             val == extraVars[key]
         IN (IF val.kind = "string"
             THEN <<"-e", key \o "=" \o val.val>>
             ELSE <<"-e", "{\"" \o key \o "\":" \o val.val \o "}">>)
            \o ExtraVarArgs(extraVars, Tail(order))

\* the vault block of resourcePlaybook2Create: the vault files as var files,
\* then --vault-id and its argument; without a password file an error
\* diagnostic is appended and the argument is still added
VaultArgs(c) ==
    IF Len(c.vaultFiles) # 0
    THEN [args |-> FileArgs(c.vaultFiles) \o
                   <<"--vault-id",
                     (IF c.vaultID # "" THEN c.vaultID ELSE "") \o
                     (IF c.vaultPasswordFile # ""
                      THEN "@" \o c.vaultPasswordFile ELSE "")>>,
          diags |-> IF c.vaultPasswordFile # "" THEN <<>>
                    ELSE <<Diag("Error",
                       "ERROR [ansible-playbook]: can't access vault file(s)! Missing 'vault_password_file'!",
                       "ansible-playbook")>>]
    ELSE [args |-> <<>>, diags |-> <<>>]

\* (a plausible slip: --check and --diff appended with --force-handlers,
\* before the tags and the limits)
Create2ArgsFlagsFirst(c, order) ==
    [args |->
        (IF CreateVerboseSwitch(c.verbosity) # ""
         THEN <<CreateVerboseSwitch(c.verbosity)>> ELSE <<>>) \o
        (IF c.forceHandlers THEN <<"--force-handlers">> ELSE <<>>) \o
        (IF c.checkMode THEN <<"--check">> ELSE <<>>) \o
        (IF c.diffMode THEN <<"--diff">> ELSE <<>>) \o
        (IF c.name # "" THEN <<"-e", "hostname=" \o c.name>> ELSE <<>>) \o
        (IF Len(c.tags) > 0 THEN <<"--tags", Join(c.tags)>> ELSE <<>>) \o
        (IF Len(c.limit) > 0 THEN <<"--limit", Join(c.limit)>> ELSE <<>>) \o
        FileArgs(c.varFiles) \o
        VaultArgs(c).args \o
        ExtraVarArgs(c.extraVars, order) \o
        <<c.playbook>>,
     diags |-> VaultArgs(c).diags]

\* resourcePlaybook2Create, "PREP THE OPTIONS (ARGS)"
Create2Args(c, order) ==
    [args |->
        (IF CreateVerboseSwitch(c.verbosity) # ""
         THEN <<CreateVerboseSwitch(c.verbosity)>> ELSE <<>>) \o
        (IF c.forceHandlers THEN <<"--force-handlers">> ELSE <<>>) \o
        (IF c.name # "" THEN <<"-e", "hostname=" \o c.name>> ELSE <<>>) \o
        (IF Len(c.tags) > 0 THEN <<"--tags", Join(c.tags)>> ELSE <<>>) \o
        (IF Len(c.limit) > 0 THEN <<"--limit", Join(c.limit)>> ELSE <<>>) \o
        (IF c.checkMode THEN <<"--check">> ELSE <<>>) \o
        (IF c.diffMode THEN <<"--diff">> ELSE <<>>) \o
        FileArgs(c.varFiles) \o
        VaultArgs(c).args \o
        ExtraVarArgs(c.extraVars, order) \o
        <<c.playbook>>,
     diags |-> VaultArgs(c).diags]

\* resourcePlaybookUpdate, "PREP THE OPTIONS (ARGS)"
UpdateArgs(c, order) ==
    [args |->
        (IF CreateVerboseSwitch(c.verbosity) # ""
         THEN <<CreateVerboseSwitch(c.verbosity)>> ELSE <<>>) \o
        (IF c.forceHandlers THEN <<"--force-handlers">> ELSE <<>>) \o
        FileArgs(c.varFiles) \o
        ExtraVarArgs(c.extraVars, order) \o
        <<c.playbook>>,
     diags |-> <<>>]

\* the attributes of a resource, as data.Get returns them
BaseConfig ==
    [verbosity |-> 2, forceHandlers |-> TRUE, name |-> "web",
     tags |-> <<"a", "b">>, limit |-> <<"web">>, checkMode |-> TRUE,
     diffMode |-> TRUE, varFiles |-> <<"vars.yml">>, vaultFiles |-> <<>>,
     vaultID |-> "", vaultPasswordFile |-> "",
     extraVars |-> [k \in {"env"} |-> ExtraVar("string", "prod")],
     playbook |-> "site.yml", ignorePlaybookFailure |-> FALSE,
     keepTemporaryInventoryFile |-> FALSE, artifactQueries |-> FALSE]

\* the configurations the runner is exercised with
RunnerConfigs(r) ==
    IF r = "playbook"
    THEN { [BaseConfig EXCEPT !.artifactQueries = q] : q \in BOOLEAN }
    ELSE { [BaseConfig EXCEPT !.vaultFiles = vf, !.vaultPasswordFile = pw,
                              !.ignorePlaybookFailure = ig]
             : vf \in {<<>>, <<"vault.yml">>}, pw \in {"", "pw"},
               ig \in BOOLEAN }

(***************************************************************************)
(* The framework resource: the Create and Update handlers of               *)
(* PlaybookResource and Execute.  buffer is the captured stdout,           *)
(* bufs["stderr"] the captured stderr, rdiags the diagnostics of the       *)
(* response, rdata the resource model the handler works on.                *)
(***************************************************************************)
QueryNames == {"q1", "q2"}

\* an element of the artifact_queries attribute (ArtifactQueryModel)
QueryModel(jsonpath, failOnMissingKey, jsonOutput, result) ==
    [jsonpath |-> jsonpath, fail_on_missing_key |-> failOnMissingKey,
     json_output |-> jsonOutput, result |-> result]

\* ArtifactQueryModel.Value
Value(m) ==
    [JSONPath |-> m.jsonpath, FailOnMissingKey |-> m.fail_on_missing_key,
     JsonOutput |-> m.json_output, Result |-> m.result]

\* (a plausible slip: the flags not copied back, left at their defaults)
SetResultOnly(query) ==
    [jsonpath |-> query.JSONPath, fail_on_missing_key |-> FALSE,
     json_output |-> FALSE, result |-> query.Result]

\* ArtifactQueryModel.Set
Set(query) ==
    QueryModel(query.JSONPath, query.FailOnMissingKey, query.JsonOutput,
               query.Result)

\* the queries a configuration may hold: a path that resolves, a path that
\* is missing (lenient or strict), a path that does not compile
QueryChoices ==
    { QueryModel(".stats", FALSE, FALSE, <<>>),
      QueryModel(".missing", FALSE, FALSE, <<>>),
      QueryModel(".missing", TRUE, FALSE, <<>>),
      QueryModel("{bad", FALSE, FALSE, <<>>) }

NoQueries == [n \in {} |-> QueryModel("", FALSE, FALSE, <<>>)]

\* an error value: what went wrong and the text it was raised about
Err(kind, about) == [kind |-> kind, about |-> about]

NoErr == Err("nil", "")

\* (the older providerutils.jsonPath: AllowMissingKeys(true), whatever the
\* query asks for)
jsonPathLenient(doc, query) ==
    IF ~doc.json THEN [err |-> TRUE, out |-> <<>>, cause |-> Err("decode", "")]
    ELSE IF query.JSONPath = "{bad"
    THEN [err |-> TRUE, out |-> <<>>, cause |-> Err("parse", query.JSONPath)]
    ELSE IF query.JSONPath = ".missing"
    THEN [err |-> FALSE, out |-> <<>>, cause |-> NoErr]
    ELSE [err |-> FALSE,
          out |-> <<[path |-> query.JSONPath, json |-> query.JsonOutput,
                     value |-> doc.stats]>>,
          cause |-> NoErr]

\* (a plausible slip: AllowMissingKeys(query.FailOnMissingKey), the flag not
\* inverted)
jsonPathNotInverted(doc, query) ==
    IF ~doc.json THEN [err |-> TRUE, out |-> <<>>, cause |-> Err("decode", "")]
    ELSE IF query.JSONPath = "{bad"
    THEN [err |-> TRUE, out |-> <<>>, cause |-> Err("parse", query.JSONPath)]
    ELSE IF query.JSONPath = ".missing"
    THEN [err |-> ~query.FailOnMissingKey, out |-> <<>>,
          cause |-> IF ~query.FailOnMissingKey
                    THEN Err("missing", query.JSONPath) ELSE NoErr]
    ELSE [err |-> FALSE,
          out |-> <<[path |-> query.JSONPath, json |-> query.JsonOutput,
                     value |-> doc.stats]>>,
          cause |-> NoErr]

\* jsonPath(stdout.Bytes(), query): the bytes are decoded, the path is
\* compiled and executed; a missing key is an error only when
\* AllowMissingKeys(!FailOnMissingKey) forbids it.  The error is raised by
\* the decoder or by the path library, which are given the bytes and the
\* path of the query and nothing else
jsonPath(doc, query) ==
    IF ~doc.json THEN [err |-> TRUE, out |-> <<>>, cause |-> Err("decode", "")]
    ELSE IF query.JSONPath = "{bad"
    THEN [err |-> TRUE, out |-> <<>>, cause |-> Err("parse", query.JSONPath)]
    ELSE IF query.JSONPath = ".missing"
    THEN [err |-> query.FailOnMissingKey, out |-> <<>>,
          cause |-> IF query.FailOnMissingKey
                    THEN Err("missing", query.JSONPath) ELSE NoErr]
    ELSE [err |-> FALSE,
          out |-> <<[path |-> query.JSONPath, json |-> query.JsonOutput,
                     value |-> doc.stats]>>,
          cause |-> NoErr]

\* fmt.Errorf("failed to query playbook artifact with JSONPath, %w", err)
QueryError(cause) ==
    [msg |-> "failed to query playbook artifact with JSONPath", cause |-> cause]

\* the arguments Execute assembles before the inventory is built
RECURSIVE ExecVarArgs(_, _)
ExecVarArgs(extraVars, order) ==
    IF order = <<>> THEN <<>>
    ELSE <<"-e", Head(order) \o "=" \o extraVars[Head(order)]>>
         \o ExecVarArgs(extraVars, Tail(order))

ExecArgs(c, order) == ExecVarArgs(c.extraVars, order) \o <<c.playbook>>

\* the plans the handlers are exercised with
ExecConfigs ==
    { [extraVars |-> [k \in {"env", "tier"} |-> IF k = "env" THEN "prod" ELSE "web"],
       playbook |-> "site.yml", storeOutputInState |-> store, queries |-> qs]
        : store \in BOOLEAN,
          qs \in {NoQueries} \cup [QueryNames -> QueryChoices] }

\* what the external tool may leave on stdout
CleanReport ==
    [json |-> TRUE,
     plays |-> <<[name |-> "P",
                  tasks |-> <<[name |-> "T",
                               hosts |-> [h \in {"h1"} |->
                                   RawHost(RawResult(FALSE, NoMsg, "", "", ""),
                                           FALSE, <<>>)]]>>]>>,
     stats |-> [h \in {"h1"} |-> [failures |-> 0, unreachable |-> 0]]]

FailedReport ==
    [json |-> TRUE,
     plays |-> <<[name |-> "P",
                  tasks |-> <<[name |-> "T",
                               hosts |-> [h \in {"h1"} |->
                                   RawHost(RawResult(TRUE, NoMsg, "", "boom", ""),
                                           FALSE, <<>>)]]>>]>>,
     stats |-> [h \in {"h1"} |-> [failures |-> 1, unreachable |-> 0]]]

ExecDocs == {Garbage, CleanReport, FailedReport}

\* a computed attribute: unknown in the plan, or a value
Unknown == [known |-> FALSE]

Known(value) == [known |-> TRUE, value |-> value]

\* the loop of QueryPlaybookArtifact: the names visited, whether it has
\* returned an error, the name it was at then, and the error returned
NoQueryRun ==
    [visited |-> {}, err |-> FALSE, failed |-> "", error |-> QueryError(NoErr),
     evals |-> [n \in QueryNames |-> 0]]

NoState == [id |-> FALSE]

\* the state of the variables of Execute while no framework handler runs
ExecuteIdle ==
    /\ queries = NoQueries
    /\ qrun = NoQueryRun
    /\ runErr = "none"
    /\ state = NoState

(***************************************************************************)
(* Process runner: the create/update handlers of the SDK resources         *)
(* ansible_playbook (resourcePlaybookUpdate) and ansible_playbook2         *)
(* (resourcePlaybook2Create, resourcePlaybook2Update).                     *)
(***************************************************************************)
Streams == {"stdout", "stderr"}

Resources == {"playbook", "playbook2"}

NoWrite == [stream |-> "none", long |-> FALSE]

NoLaunch == [pipes |-> "none", start |-> "none"]

NoData == [id |-> FALSE, stdout |-> <<>>, stderr |-> <<>>, results |-> FALSE]

\* the name BuildInventory gives the temporary inventory file
InventoryFile == "inventory.yml"

\* the state of the variables of the runner while no handler runs
\* the attributes of ansible_playbook2 kept in the Terraform state
Stored(replayable, name, storedArgs) ==
    [replayable |-> replayable, name |-> name, args |-> storedArgs]

NoStored == Stored(FALSE, "", <<>>)

\* no apply has taken place: the state holds no resource
NoLife ==
    [step |-> "idle", applies |-> 0, id |-> FALSE, stored |-> NoStored,
     runs |-> 0, runsOfId |-> 0]

LifeIdle == life = NoLife

RunnerIdle ==
    /\ resource = "playbook"
    /\ config = BaseConfig
    /\ rpc = "idle"
    /\ args = <<>>
    /\ cdiags = <<>>
    /\ rdiags = <<>>
    /\ tempFile = "none"
    /\ launch = NoLaunch
    /\ child = [status |-> "none", pending |-> NoWrite, exit |-> 0]
    /\ written = [s \in Streams |-> <<>>]
    /\ pipe = [s \in Streams |-> [data |-> <<>>, closed |-> FALSE]]
    /\ drain = [s \in Streams |-> [state |-> "none", local |-> <<>>]]
    /\ bufs = [s \in Streams |-> <<>>]
    /\ waitErr = FALSE
    /\ joined = FALSE
    /\ accesses = {}
    /\ rdata = NoData

\* the phase an access falls in: before or after the join
Phase == IF joined THEN "joined" ELSE "run"

Access(buf, by, kind) == [buf |-> buf, by |-> by, kind |-> kind, phase |-> Phase]

\* (a plausible slip: both goroutines are handed &stdoutBuf)
SharedBuffer(s) == "stdout"

\* go processOutput(stdoutPipe, &stdoutBuf, false);
\* go processOutput(stderrPipe, &stderrBuf, true): the buffer of a stream
DrainBuffer(s) == s

\* resourcePlaybook2Create up to its call of resourcePlaybook2Update: the id
\* is set, the arguments are assembled and stored in "args", and the
\* diagnostics of the assembly are kept for the return; nothing tests them.
\* resourcePlaybookCreate only calls resourcePlaybookUpdate
Create ==
    /\ rpc = "create"
    /\ IF resource = "playbook2"
       THEN \E order \in Perms(DOMAIN config.extraVars) :
               /\ args' = Create2Args(config, order).args
               /\ cdiags' = Create2Args(config, order).diags
               /\ rdata' = [rdata EXCEPT !.id = TRUE]
       ELSE UNCHANGED <<args, cdiags, rdata>>
    /\ rpc' = "update"
    /\ UNCHANGED <<reportVars, execVars, resource, config, rdiags, tempFile, launch,
                   procVars>>
    /\ UNCHANGED life

\* the head of the update, up to exec.Command.
\* resourcePlaybookUpdate: the arguments, "if diags.HasError() return", then
\* providerutils.BuildInventory (a nil *os.File is used when CreateTemp
\* fails; a failed write is an error diagnostic), "-i file" appended and
\* "if diags.HasError() return".
\* resourcePlaybook2Update: temp_inventory_file is empty, the inventory is
\* built, and "-i file" goes before the stored arguments
Prepare ==
    /\ rpc = "update"
    /\ IF resource = "playbook"
       THEN \E order \in Perms(DOMAIN config.extraVars),
               inv \in {"ok", "createFailed", "writeFailed"} :
               LET a == UpdateArgs(config, order) IN
               IF HasError(a.diags)
               THEN /\ rdiags' = a.diags
                    /\ rpc' = "updated"
                    /\ UNCHANGED <<args, tempFile>>
               ELSE IF inv = "createFailed"
               THEN /\ rpc' = "panicked"
                    /\ rdiags' = a.diags
                    /\ UNCHANGED <<args, tempFile>>
               ELSE /\ tempFile' = "present"
                    /\ args' = a.args \o <<"-i", InventoryFile>>
                    /\ IF inv = "writeFailed"
                       THEN /\ rdiags' = Append(a.diags,
                                   Diag("Error", "Failed to create inventory", ""))
                            /\ rpc' = "updated"
                       ELSE /\ rdiags' = a.diags
                            /\ rpc' = "pipes"
       ELSE /\ tempFile' = "present"
            /\ args' = <<"-i", InventoryFile>> \o args
            /\ rpc' = "pipes"
            /\ UNCHANGED rdiags
    /\ UNCHANGED <<reportVars, execVars, resource, config, cdiags, launch, procVars, rdata>>
    /\ UNCHANGED life

\* runAnsiblePlay.StdoutPipe(), runAnsiblePlay.StderrPipe(): the playbook
\* resource returns an error diagnostic when one fails; playbook2 drops the
\* error and goes on with a nil pipe
CreatePipes ==
    /\ rpc = "pipes"
    /\ \E failed \in {"ok", "stdout", "stderr"} :
          /\ launch' = [launch EXCEPT !.pipes = failed]
          /\ IF failed = "ok"
             THEN /\ rpc' = "start"
                  /\ UNCHANGED <<rdiags, pipe>>
             ELSE IF resource = "playbook"
             THEN /\ rdiags' = Append(rdiags,
                         Diag("Error", "Error creating " \o failed \o " pipe", "err"))
                  /\ rpc' = "updated"
                  /\ UNCHANGED pipe
             ELSE /\ pipe' = [pipe EXCEPT ![failed].closed = TRUE]
                  /\ rpc' = "start"
                  /\ UNCHANGED rdiags
    /\ UNCHANGED <<reportVars, execVars, resource, config, args, cdiags, tempFile, child,
                   written, drain, bufs, waitErr, joined, accesses, rdata>>
    /\ UNCHANGED life

\* runAnsiblePlay.Start(): on success the child runs; on failure exec closes
\* both ends of the pipes, the playbook resource returns an error diagnostic
\* and playbook2 drops the error
Start ==
    /\ rpc = "start"
    /\ \E ok \in BOOLEAN :
          IF ok
          THEN /\ child' = [child EXCEPT !.status = "running"]
               /\ launch' = [launch EXCEPT !.start = "ok"]
               /\ rpc' = "spawn"
               /\ UNCHANGED <<rdiags, pipe>>
          ELSE /\ pipe' = [s \in Streams |-> [pipe[s] EXCEPT !.closed = TRUE]]
               /\ launch' = [launch EXCEPT !.start = "failed"]
               /\ IF resource = "playbook"
                  THEN /\ rdiags' = Append(rdiags,
                              Diag("Error", "Error starting the command", "err"))
                       /\ rpc' = "updated"
                  ELSE /\ rpc' = "spawn"
                       /\ UNCHANGED rdiags
               /\ UNCHANGED child
    /\ UNCHANGED <<reportVars, execVars, resource, config, args, cdiags, tempFile,
                   written, drain, bufs, waitErr, joined, accesses, rdata>>
    /\ UNCHANGED life

\* wg.Add(2); go processOutput(...); go processOutput(...).  With a nil pipe
\* (playbook2 after a failed StdoutPipe/StderrPipe) the scanner of that
\* goroutine reads through a nil io.Reader and the provider process panics
Spawn ==
    /\ rpc = "spawn"
    /\ IF launch.pipes # "ok"
       THEN /\ rpc' = "panicked"
            /\ UNCHANGED drain
       ELSE /\ rpc' = "waitCmd"
            /\ drain' = [s \in Streams |-> [state |-> "running", local |-> <<>>]]
    /\ UNCHANGED <<reportVars, execVars, resource, config, args, cdiags, rdiags, tempFile,
                   launch, child, written, pipe, bufs, waitErr, joined,
                   accesses, rdata>>
    /\ UNCHANGED life

\* the child decides on its next write: a line of ordinary length or one
\* longer than bufio.MaxScanTokenSize, to one of its two streams
ChildNext ==
    /\ child.status = "running"
    /\ child.pending = NoWrite
    /\ Len(written["stdout"]) + Len(written["stderr"]) < MaxLines
    /\ \E s \in Streams, long \in BOOLEAN :
          child' = [child EXCEPT !.pending = [stream |-> s, long |-> long]]
    /\ UNCHANGED <<reportVars, execVars, setupVars, written, pipe, drain, bufs,
                   waitErr, joined, accesses, rdata>>
    /\ UNCHANGED life

\* the write of the child completes once the pipe has room for it
ChildWrite ==
    /\ child.status = "running"
    /\ child.pending # NoWrite
    /\ LET s == child.pending.stream
           line == [id |-> Len(written[s]) + 1, long |-> child.pending.long]
       IN /\ Len(pipe[s].data) < PipeCap
          /\ pipe' = [pipe EXCEPT ![s].data = Append(@, line)]
          /\ written' = [written EXCEPT ![s] = Append(@, line)]
    /\ child' = [child EXCEPT !.pending = NoWrite]
    /\ UNCHANGED <<reportVars, execVars, setupVars, drain, bufs, waitErr, joined,
                   accesses, rdata>>
    /\ UNCHANGED life

\* the child has written all it had to write and exits, with status 0 or not
ChildExit ==
    /\ child.status = "running"
    /\ child.pending = NoWrite
    /\ \E code \in {0, 1} :
          child' = [child EXCEPT !.status = "exited", !.exit = code]
    /\ UNCHANGED <<reportVars, execVars, setupVars, written, pipe, drain, bufs,
                   waitErr, joined, accesses, rdata>>
    /\ UNCHANGED life

\* the end of processOutput: if err := scanner.Err(); err != nil, the
\* playbook resource appends a warning to the shared diags (a read of diags
\* followed by a write of it); playbook2 drops the error; then wg.Done()
AfterScan(s, err) ==
    IF err /\ resource = "playbook"
    THEN [state |-> "append", local |-> rdiags]
    ELSE [state |-> "done", local |-> <<>>]

\* scanner.Scan() returns a line: buffer.WriteString(line + "\n").  playbook2
\* keeps the lines of stderr only.  A line longer than the token limit of the
\* scanner ends the loop with ErrTooLong
DrainScan(s) ==
    /\ drain[s].state = "running"
    /\ ~pipe[s].closed
    /\ pipe[s].data # <<>>
    /\ LET line == Head(pipe[s].data) IN
       /\ pipe' = [pipe EXCEPT ![s].data = Tail(@)]
       /\ IF line.long
          THEN /\ drain' = [drain EXCEPT ![s] = AfterScan(s, TRUE)]
               /\ UNCHANGED <<bufs, accesses>>
          ELSE /\ UNCHANGED drain
               /\ IF resource = "playbook" \/ s = "stderr"
                  THEN /\ bufs' = [bufs EXCEPT ![DrainBuffer(s)] = Append(@, line)]
                       /\ accesses' = accesses \cup {Access(DrainBuffer(s), s, "write")}
                  ELSE UNCHANGED <<bufs, accesses>>
    /\ UNCHANGED <<reportVars, execVars, setupVars, child, written, waitErr, joined, rdata>>
    /\ UNCHANGED life

\* scanner.Scan() returns false: end of stream (the pipe is empty and its
\* write end is closed), or the read fails because Wait or a failed Start has
\* closed the read end, whatever the pipe still holds
DrainEnd(s) ==
    /\ drain[s].state = "running"
    /\ \/ /\ pipe[s].closed
          /\ drain' = [drain EXCEPT ![s] = AfterScan(s, TRUE)]
       \/ /\ ~pipe[s].closed
          /\ pipe[s].data = <<>>
          /\ child.status = "exited"
          /\ drain' = [drain EXCEPT ![s] = AfterScan(s, FALSE)]
    /\ UNCHANGED <<reportVars, execVars, setupVars, child, written, pipe, bufs,
                   waitErr, joined, accesses, rdata>>
    /\ UNCHANGED life

\* diags = append(diags, warning) in the goroutine, then wg.Done()
DrainAppend(s) ==
    /\ drain[s].state = "append"
    /\ rdiags' = Append(drain[s].local,
                        Diag("Warning", "Error reading output", s))
    /\ drain' = [drain EXCEPT ![s] = [state |-> "done", local |-> <<>>]]
    /\ UNCHANGED <<reportVars, execVars, resource, config, rpc, args, cdiags, tempFile,
                   launch, child, written, pipe, bufs, waitErr, joined,
                   accesses, rdata>>
    /\ UNCHANGED life

\* err = runAnsiblePlay.Wait(): returns once the child has exited (at once,
\* with an error, when it was never started) and closes the read ends of the
\* pipes
CmdWait ==
    /\ rpc = "waitCmd"
    /\ child.status # "running"
    /\ waitErr' = (child.status = "none" \/ child.exit # 0)
    /\ pipe' = [s \in Streams |-> [pipe[s] EXCEPT !.closed = TRUE]]
    /\ rpc' = "waitWg"
    /\ UNCHANGED <<reportVars, execVars, resource, config, args, cdiags, rdiags, tempFile,
                   launch, child, written, drain, bufs, joined, accesses, rdata>>
    /\ UNCHANGED life

\* (a plausible slip: wg.Add(1), so that one wg.Done() releases the wait)
WgZeroAfterOne == \E s \in Streams : drain[s].state = "done"

\* the counter of the WaitGroup is zero: both goroutines have called Done
WgZero == \A s \in Streams : drain[s].state = "done"

\* wg.Wait()
WgWait ==
    /\ rpc = "waitWg"
    /\ WgZero
    /\ joined' = TRUE
    /\ rpc' = "report"
    /\ UNCHANGED <<reportVars, execVars, resource, config, args, cdiags, rdiags, tempFile,
                   launch, child, written, pipe, drain, bufs, waitErr,
                   accesses, rdata>>
    /\ UNCHANGED life

\* providerutils.RemoveFile: os.Remove, an error diagnostic when it fails
RemoveFileDiags(removed) ==
    IF removed THEN <<>> ELSE <<Diag("Error", "Failed to remove file", InventoryFile)>>

\* resourcePlaybookUpdate after the join: an error with both buffers when
\* Wait failed; else a warning with stderr when stderr is not empty, and the
\* artifact queries on stdout, an error when they fail
ReportDiags(queryFailed) ==
    IF waitErr
    THEN <<Diag("Error", "Ansible playbook command finished with an error",
                [stderr |-> bufs["stderr"], stdout |-> bufs["stdout"]])>>
    ELSE (IF bufs["stderr"] # <<>>
          THEN <<Diag("Warning", "Error output from Ansible",
                      [stderr |-> bufs["stderr"]])>>
          ELSE <<>>) \o
         (IF queryFailed
          THEN <<Diag("Error", "Error querying playbook artifacts",
                      [stderr |-> bufs["stderr"], stdout |-> bufs["stdout"]])>>
          ELSE <<>>)

\* (a plausible slip: ignore_playbook_failure not consulted)
Report2DiagsAlwaysError ==
    IF waitErr
    THEN <<Diag("Error", [stderr |-> bufs["stderr"]], "ansible-playbook")>>
    ELSE <<>>

\* resourcePlaybook2Update after the join: the text of stderr as an error, or
\* as a warning when ignore_playbook_failure is set
Report2Diags ==
    IF waitErr
    THEN <<Diag(IF config.ignorePlaybookFailure THEN "Warning" ELSE "Error",
                [stderr |-> bufs["stderr"]], "ansible-playbook")>>
    ELSE <<>>

\* the tail of the update, from the test of the error of Wait to the return:
\* the diagnostics built from the buffers, the query results and the outputs
\* stored in the resource data, the temporary inventory file removed
Report ==
    /\ rpc = "report"
    /\ IF resource = "playbook"
       THEN \E queryFailed \in
                 (IF config.artifactQueries /\ ~waitErr THEN BOOLEAN ELSE {FALSE}),
               removed \in BOOLEAN :
               /\ rdiags' = rdiags \o ReportDiags(queryFailed) \o RemoveFileDiags(removed)
               /\ rdata' = IF waitErr THEN rdata
                           ELSE [id |-> TRUE, stdout |-> bufs["stdout"],
                                 stderr |-> bufs["stderr"],
                                 results |-> config.artifactQueries /\ ~queryFailed]
               /\ tempFile' = IF removed THEN "removed" ELSE tempFile
               /\ accesses' = accesses \cup
                     {Access("stderr", "main", "read"), Access("stdout", "main", "read")}
       ELSE \E removed \in
                 (IF config.keepTemporaryInventoryFile THEN {FALSE} ELSE BOOLEAN) :
               /\ rdiags' = rdiags \o Report2Diags \o
                     (IF config.keepTemporaryInventoryFile THEN <<>>
                      ELSE RemoveFileDiags(removed))
               /\ tempFile' = IF removed THEN "removed" ELSE tempFile
               /\ accesses' = accesses \cup
                     (IF waitErr THEN {Access("stderr", "main", "read")} ELSE {})
               /\ UNCHANGED rdata
    /\ rpc' = "updated"
    /\ UNCHANGED <<reportVars, execVars, resource, config, args, cdiags, launch, child,
                   written, pipe, drain, bufs, waitErr, joined>>
    /\ UNCHANGED life

\* the create handler returns: diags = append(diags, diagsFromUpdate...)
Return ==
    /\ rpc = "updated"
    /\ rdiags' = cdiags \o rdiags
    /\ rpc' = "returned"
    /\ UNCHANGED <<reportVars, execVars, resource, config, args, cdiags, tempFile,
                   launch, procVars, rdata>>
    /\ UNCHANGED life

InitRunner ==
    /\ buffer = EmptyReport
    /\ analysis = NoAnalysis
    /\ resource \in Resources
    /\ config \in RunnerConfigs(resource)
    /\ rpc = "create"
    /\ args = <<>>
    /\ cdiags = <<>>
    /\ rdiags = <<>>
    /\ tempFile = "none"
    /\ launch = NoLaunch
    /\ child = [status |-> "none", pending |-> NoWrite, exit |-> 0]
    /\ written = [s \in Streams |-> <<>>]
    /\ pipe = [s \in Streams |-> [data |-> <<>>, closed |-> FALSE]]
    /\ drain = [s \in Streams |-> [state |-> "none", local |-> <<>>]]
    /\ bufs = [s \in Streams |-> <<>>]
    /\ waitErr = FALSE
    /\ joined = FALSE
    /\ accesses = {}
    /\ rdata = NoData
    /\ ExecuteIdle
    /\ LifeIdle

NextRunner ==
    \/ Create \/ Prepare \/ CreatePipes \/ Start \/ Spawn
    \/ ChildNext \/ ChildWrite \/ ChildExit
    \/ \E s \in Streams : DrainScan(s)
    \/ \E s \in Streams : DrainEnd(s)
    \/ \E s \in Streams : DrainAppend(s)
    \/ CmdWait \/ WgWait \/ Report \/ Return

SpecRunner == InitRunner /\ [][NextRunner]_vars


(***************************************************************************)
(* The report specification: the external tool emits a report play by      *)
(* play, task by task and host by host, and AnalyzeJSON is applied to it.  *)
(***************************************************************************)
\* the leaf fields a host result is emitted with
Details ==
    { RawResult(FALSE, NoMsg, "", "boom", "") }

\* plays + tasks + host entries + stats entries of a document
RECURSIVE SumSeq(_, _)
SumSeq(f, n) == IF n = 0 THEN 0 ELSE f[n] + SumSeq(f, n - 1)

ReportSize(doc) ==
    LET perPlay == [i \in 1..Len(doc.plays) |->
                       1 + SumSeq([j \in 1..Len(doc.plays[i].tasks) |->
                                      1 + Cardinality(DOMAIN doc.plays[i].tasks[j].hosts)],
                                  Len(doc.plays[i].tasks))]
    IN SumSeq(perPlay, Len(doc.plays)) + Cardinality(DOMAIN doc.stats)

\* a play starts: Play{Name, Tasks: []}
EmitPlay ==
    /\ buffer.json /\ ~analysis.done
    /\ ReportSize(buffer) < MaxReportSize
    /\ \E name \in PlayNames :
          buffer' = [buffer EXCEPT !.plays = Append(@, [name |-> name, tasks |-> <<>>])]
    /\ UNCHANGED <<analysis, runnerVars, execVars>>
    /\ UNCHANGED life

\* a task of the current play starts: Task{Name, Hosts: {}}
EmitTask ==
    /\ buffer.json /\ ~analysis.done
    /\ ReportSize(buffer) < MaxReportSize
    /\ Len(buffer.plays) > 0
    /\ \E name \in TaskNames :
          buffer' = [buffer EXCEPT !.plays[Len(buffer.plays)].tasks =
                        Append(@, [name |-> name, hosts |-> EmptyHosts])]
    /\ UNCHANGED <<analysis, runnerVars, execVars>>
    /\ UNCHANGED life

\* the current task reports the result of one host
EmitHostResult ==
    /\ buffer.json /\ ~analysis.done
    /\ ReportSize(buffer) < MaxReportSize
    /\ Len(buffer.plays) > 0
    /\ LET i == Len(buffer.plays)
           j == Len(buffer.plays[i].tasks)
       IN /\ j > 0
          /\ \E h \in HostNames \ DOMAIN buffer.plays[i].tasks[j].hosts,
                failed \in BOOLEAN, unreachable \in BOOLEAN, d \in Details :
                LET old == buffer.plays[i].tasks[j].hosts
                    host == RawHost([d EXCEPT !.failed = failed], unreachable, <<>>)
                IN buffer' = [buffer EXCEPT !.plays[i].tasks[j].hosts =
                                 [x \in DOMAIN old \cup {h} |->
                                     IF x = h THEN host ELSE old[x]]]
    /\ UNCHANGED <<analysis, runnerVars, execVars>>
    /\ UNCHANGED life

\* the run summary of one host: HostStats{Failures, Unreachable}
EmitStats ==
    /\ buffer.json /\ ~analysis.done
    /\ ReportSize(buffer) < MaxReportSize
    /\ \E h \in HostNames \ DOMAIN buffer.stats,
          f \in StatCounts, u \in StatCounts :
          buffer' = [buffer EXCEPT !.stats =
                        [x \in DOMAIN buffer.stats \cup {h} |->
                            IF x = h THEN [failures |-> f, unreachable |-> u]
                            ELSE buffer.stats[x]]]
    /\ UNCHANGED <<analysis, runnerVars, execVars>>
    /\ UNCHANGED life

TaskIds(doc) ==
    { <<i, j>> : i \in 1..Len(doc.plays), j \in 1..MaxReportSize } \cap
    UNION { { <<i, j>> : j \in 1..Len(doc.plays[i].tasks) } : i \in 1..Len(doc.plays) }

\* formattedOutput, hadFailure, err := AnalyzeJSON(stdoutBuf)
Analyze ==
    /\ ~analysis.done
    /\ \E order \in [TaskIds(buffer) -> Perms(HostNames)] :
          LET r == AnalyzeJSON(buffer, order)
          IN analysis' = [done |-> TRUE, output |-> r.output,
                          hadFailure |-> r.hadFailure, err |-> r.err]
    /\ UNCHANGED <<buffer, runnerVars, execVars>>
    /\ UNCHANGED life

InitReport ==
    /\ buffer \in {EmptyReport, Garbage}
    /\ analysis = NoAnalysis
    /\ RunnerIdle
    /\ ExecuteIdle
    /\ LifeIdle

NextReport == EmitPlay \/ EmitTask \/ EmitHostResult \/ EmitStats \/ Analyze

SpecReport == InitReport /\ [][NextReport]_vars

(***************************************************************************)
(* The handlers of the framework resource, step by step                    *)
(***************************************************************************)
\* the variables of the SDK runner that Execute does not use
sdkVars == <<cdiags, launch, child, written, pipe, drain, waitErr, joined,
             accesses>>

\* Create/Update up to Run: the plan is read (Create sets the id), the
\* queries are converted, the arguments assembled in the iteration order of
\* extra_vars, the inventory built.  BuildInventory uses the nil *os.File
\* when CreateTemp fails; after a failed write Execute returns
ExecBegin ==
    /\ rpc \in {"create", "update"}
    /\ queries' = [n \in DOMAIN config.queries |-> Value(config.queries[n])]
    /\ rdata' = [id |-> TRUE, stdout |-> Unknown, stderr |-> Unknown,
                 queries |-> config.queries]
    /\ \E order \in Perms(DOMAIN config.extraVars),
          inv \in {"ok", "createFailed", "writeFailed"} :
          IF inv = "createFailed"
          THEN /\ rdiags' = Append(rdiags,
                      Diag("Error", "Failed to create inventory file", ""))
               /\ rpc' = "panicked"
               /\ args' = ExecArgs(config, order)
               /\ UNCHANGED tempFile
          ELSE IF inv = "writeFailed"
          THEN /\ rdiags' = Append(rdiags,
                      Diag("Error", "Failed to create inventory", ""))
               /\ rpc' = "executed"
               /\ args' = ExecArgs(config, order)
               /\ tempFile' = "present"
          ELSE /\ rpc' = "run"
               /\ args' = ExecArgs(config, order) \o <<"-i", InventoryFile>>
               /\ tempFile' = "present"
               /\ UNCHANGED rdiags
    /\ UNCHANGED <<reportVars, resource, config, bufs, sdkVars, qrun, runErr, state>>
    /\ UNCHANGED life

\* executionError := runAnsiblePlay.Run(): the binary cannot be started
\* (nothing is captured), or the process runs and exits with status 0 or not
ExecRun ==
    /\ rpc = "run"
    /\ \E outcome \in {"none", "exit", "start"}, doc \in ExecDocs,
          stderr \in {<<>>, <<"warning">>} :
          /\ runErr' = outcome
          /\ buffer' = IF outcome = "start" THEN Garbage ELSE doc
          /\ bufs' = [bufs EXCEPT !["stderr"] =
                         IF outcome = "start" THEN <<>> ELSE stderr]
    /\ rpc' = "ran"
    /\ UNCHANGED <<analysis, resource, config, args, rdiags, tempFile, sdkVars,
                   rdata, queries, qrun, state>>
    /\ UNCHANGED life

\* (a plausible slip: the raw stdout put into the one 'finished' diagnostic)
ErrorDiagsMerged(r) ==
    <<Diag("Error", "Ansible playbook command finished with an error",
           IF r.err THEN <<[stdout |-> buffer]>> ELSE r.output)>>

\* the diagnostics of a failed run: a decode error with the raw stdout when
\* the report does not decode, then the 'finished with an error' diagnostic,
\* its detail the rendered failures when a failure was detected
ErrorDiags(r) ==
    (IF r.err
     THEN <<Diag("Error", "Error analyzing result JSON", <<[stdout |-> buffer]>>)>>
     ELSE <<>>) \o
    <<Diag("Error", "Ansible playbook command finished with an error",
           IF ~r.err /\ r.hadFailure THEN r.output ELSE <<>>)>>

\* after Run: the warning for a non-empty stderr; on an execution error the
\* report is analyzed and the error diagnostics added; else the outputs are
\* stored in the model and the queries come next
ExecReport ==
    /\ rpc = "ran"
    /\ LET warn == IF Len(bufs["stderr"]) > 0
                   THEN <<Diag("Warning", "Stderr from Ansible", bufs["stderr"])>>
                   ELSE <<>>
       IN IF runErr # "none"
          THEN \E order \in [TaskIds(buffer) -> Perms(HostNames)] :
                  LET r == AnalyzeJSON(buffer, order) IN
                  /\ analysis' = [done |-> TRUE, output |-> r.output,
                                  hadFailure |-> r.hadFailure, err |-> r.err]
                  /\ rdiags' = rdiags \o warn \o ErrorDiags(r)
                  /\ rpc' = "cleanup"
                  /\ UNCHANGED <<rdata, qrun>>
          ELSE /\ rdiags' = rdiags \o warn
               /\ rdata' = [rdata EXCEPT
                     !.stdout = IF config.storeOutputInState
                                THEN Known(buffer) ELSE Known(<<>>),
                     !.stderr = Known(bufs["stderr"])]
               /\ qrun' = NoQueryRun
               /\ rpc' = "query"
               /\ UNCHANGED analysis
    /\ UNCHANGED <<buffer, resource, config, args, tempFile, bufs, sdkVars,
                   queries, runErr, state>>
    /\ UNCHANGED life

\* one iteration of the loop of QueryPlaybookArtifact, on any query not yet
\* visited: an error ends the loop, a result is stored in the map at once
ExecQuery(name) ==
    /\ rpc = "query"
    /\ ~qrun.err
    /\ name \in DOMAIN queries \ qrun.visited
    /\ LET r == jsonPath(buffer, queries[name]) IN
       IF r.err
       THEN /\ qrun' = [qrun EXCEPT !.err = TRUE, !.failed = name,
                                     !.error = QueryError(r.cause),
                                     !.evals[name] = @ + 1]
            /\ UNCHANGED queries
       ELSE /\ queries' = [queries EXCEPT ![name].Result = r.out]
            /\ qrun' = [qrun EXCEPT !.visited = @ \cup {name},
                                     !.evals[name] = @ + 1]
    /\ UNCHANGED <<reportVars, setupVars, procVars, rdata, runErr, state>>
    /\ UNCHANGED life

\* after QueryPlaybookArtifact: its error is an attribute error; every query
\* of the map is copied back into the model; the report is analyzed
ExecQueried ==
    /\ rpc = "query"
    /\ qrun.err \/ qrun.visited = DOMAIN queries
    /\ \E order \in [TaskIds(buffer) -> Perms(HostNames)] :
          LET r == AnalyzeJSON(buffer, order) IN
          /\ analysis' = [done |-> TRUE, output |-> r.output,
                          hadFailure |-> r.hadFailure, err |-> r.err]
          /\ rdiags' = rdiags \o
                (IF qrun.err
                 THEN <<Diag("Error", "Playbook artifact queries failed",
                             [path |-> "artifact_queries", text |-> qrun.error])>>
                 ELSE <<>>) \o
                (IF r.err
                 THEN <<Diag("Error", "Error analyzing result JSON",
                             [stderr |-> bufs["stderr"], stdout |-> buffer])>>
                 ELSE IF r.hadFailure
                 THEN <<Diag("Warning", "Ansible results", r.output)>>
                 ELSE <<>>)
    /\ rdata' = [rdata EXCEPT !.queries = [n \in DOMAIN queries |-> Set(queries[n])]]
    /\ rpc' = "cleanup"
    /\ UNCHANGED <<buffer, resource, config, args, tempFile, bufs, sdkVars,
                   queries, qrun, runErr, state>>
    /\ UNCHANGED life

\* RemoveFile(tempInventoryFile, diags): a warning when os.Remove fails
ExecCleanup ==
    /\ rpc = "cleanup"
    /\ \E removed \in BOOLEAN :
          /\ tempFile' = IF removed THEN "removed" ELSE tempFile
          /\ rdiags' = IF removed THEN rdiags
                       ELSE Append(rdiags, Diag("Warning", "Failed to remove file",
                                                InventoryFile))
    /\ rpc' = "executed"
    /\ UNCHANGED <<reportVars, resource, config, args, bufs, sdkVars, rdata,
                   execVars>>
    /\ UNCHANGED life

\* (a plausible slip: resp.State.Set not guarded by HasError)
HandlerReturnAlwaysSets ==
    /\ rpc = "executed"
    /\ state' = rdata
    /\ rpc' = "returned"
    /\ UNCHANGED <<reportVars, resource, config, args, rdiags, tempFile, bufs,
                   sdkVars, rdata, queries, qrun, runErr>>
    /\ UNCHANGED life

\* back in the handler: if resp.Diagnostics.HasError() return; else the
\* model is written to the state
HandlerReturn ==
    /\ rpc = "executed"
    /\ state' = IF HasError(rdiags) THEN state ELSE rdata
    /\ rpc' = "returned"
    /\ UNCHANGED <<reportVars, resource, config, args, rdiags, tempFile, bufs,
                   sdkVars, rdata, queries, qrun, runErr>>
    /\ UNCHANGED life

\* the state an earlier apply has written
PriorState ==
    [id |-> TRUE, stdout |-> Known(<<>>), stderr |-> Known(<<>>),
     queries |-> config.queries]

InitExecute ==
    /\ buffer = EmptyReport
    /\ analysis = NoAnalysis
    /\ resource = "framework"
    /\ config \in ExecConfigs
    /\ rpc \in {"create", "update"}
    /\ args = <<>>
    /\ cdiags = <<>>
    /\ rdiags = <<>>
    /\ tempFile = "none"
    /\ launch = NoLaunch
    /\ child = [status |-> "none", pending |-> NoWrite, exit |-> 0]
    /\ written = [s \in Streams |-> <<>>]
    /\ pipe = [s \in Streams |-> [data |-> <<>>, closed |-> FALSE]]
    /\ drain = [s \in Streams |-> [state |-> "none", local |-> <<>>]]
    /\ bufs = [s \in Streams |-> <<>>]
    /\ waitErr = FALSE
    /\ joined = FALSE
    /\ accesses = {}
    /\ rdata = NoData
    /\ queries = NoQueries
    /\ qrun = NoQueryRun
    /\ runErr = "none"
    /\ state = IF rpc = "update" THEN PriorState ELSE NoState
    /\ LifeIdle

NextExecute ==
    \/ ExecBegin \/ ExecRun \/ ExecReport
    \/ \E name \in QueryNames : ExecQuery(name)
    \/ ExecQueried \/ ExecCleanup \/ HandlerReturn

SpecExecute == InitExecute /\ [][NextExecute]_vars

(***************************************************************************)
(* Properties of the failure renderer                                      *)
(***************************************************************************)
AllStatsZero(doc) ==
    \A h \in DOMAIN doc.stats :
        doc.stats[h].failures = 0 /\ doc.stats[h].unreachable = 0

\* the (play, task, host) entries of the document whose failed or
\* unreachable flag is set
Qualifying(doc) ==
    UNION { UNION { { <<i, j, h>> : h \in { x \in DOMAIN doc.plays[i].tasks[j].hosts :
                                              \/ doc.plays[i].tasks[j].hosts[x].failed
                                              \/ doc.plays[i].tasks[j].hosts[x].unreachable } } :
                    j \in 1..Len(doc.plays[i].tasks) } :
            i \in 1..Len(doc.plays) }

CountLines(out, kind, text) ==
    Cardinality({ n \in 1..Len(out) : out[n].kind = kind /\ out[n].text = text })

\* C1: a report that decodes and whose stats entries are all zero (or that
\* has no stats at all) renders to the empty output with hadFailure = false,
\* whatever the flags of the hosts in its plays are.
C1_ZeroStatsRenderNothing ==
    (analysis.done /\ ~analysis.err /\ AllStatsZero(buffer))
        => (analysis.output = <<>> /\ ~analysis.hadFailure)

C1_Witness ==
    /\ analysis.done /\ ~analysis.err
    /\ DOMAIN buffer.stats # {} /\ AllStatsZero(buffer)
    /\ Qualifying(buffer) # {}

\* C2: when some stats entry is positive, the output has exactly one HOST
\* line per (play, task, host) entry whose failed or unreachable flag is set,
\* one PLAY header per play that has such an entry and one TASK header per
\* task that has such an entry.
C2_OneLinePerQualifyingHost ==
    (analysis.done /\ ~analysis.err /\ ~AllStatsZero(buffer)) =>
        LET q == Qualifying(buffer) IN
        /\ \A h \in HostNames :
              CountLines(analysis.output, "HOST", h)
                  = Cardinality({ e \in q : e[3] = h })
        /\ \A name \in PlayNames :
              CountLines(analysis.output, "PLAY", name)
                  = Cardinality({ i \in 1..Len(buffer.plays) :
                                     /\ buffer.plays[i].name = name
                                     /\ \E e \in q : e[1] = i })
        /\ \A name \in TaskNames :
              CountLines(analysis.output, "TASK", name)
                  = Cardinality({ t \in { <<e[1], e[2]>> : e \in q } :
                                     buffer.plays[t[1]].tasks[t[2]].name = name })

\* two qualifying hosts share one task, one of them unreachable only, and the
\* stats entry of one of them is zero
C2_Witness ==
    /\ analysis.done /\ ~analysis.err /\ ~AllStatsZero(buffer)
    /\ \E e1 \in Qualifying(buffer), e2 \in Qualifying(buffer) :
          /\ e1[1] = e2[1] /\ e1[2] = e2[2] /\ e1[3] # e2[3]
          /\ ~buffer.plays[e1[1]].tasks[e1[2]].hosts[e1[3]].failed
          /\ e2[3] \in DOMAIN buffer.stats
          /\ buffer.stats[e2[3]].failures = 0
          /\ buffer.stats[e2[3]].unreachable = 0
    /\ Len(analysis.output) > 0


(***************************************************************************)
(* Properties of the process runner                                        *)
(***************************************************************************)
\* C4: when the runner is past its wait point, the stderr buffer holds every
\* line the child wrote to standard error and the stdout buffer (of the
\* resource that keeps one) every line it wrote to standard output, in the
\* order written, none dropped or truncated.
C4_BuffersHoldAllOutput ==
    joined => /\ bufs["stderr"] = written["stderr"]
              /\ resource = "playbook" => bufs["stdout"] = written["stdout"]

\* C5: the runner is past its wait point only when the child it started has
\* exited and both drain goroutines have finished.
C5_JoinBeforeProceeding ==
    (joined \/ rpc = "report") =>
        /\ child.status # "running"
        /\ launch.start = "ok" => child.status = "exited"
        /\ \A s \in Streams : drain[s].state = "done"

C5_Witness ==
    /\ rpc = "report"
    /\ child.status = "exited"
    /\ \A s \in Streams : written[s] # <<>> /\ drain[s].state = "done"

\* the child is blocked in a write to a full pipe nobody reads any more,
\* while the runner waits for the child to exit
ChildBlockedForever ==
    /\ rpc = "waitCmd"
    /\ child.status = "running"
    /\ child.pending # NoWrite
    /\ Len(pipe[child.pending.stream].data) >= PipeCap
    /\ drain[child.pending.stream].state \in {"append", "done"}

\* C6: the runner never deadlocks: the child is never left blocked on a full
\* pipe whose drain has stopped reading, whatever the length of its lines.
C6_NeverDeadlocks == ~ChildBlockedForever

\* C7: a buffer is written only by the drain of its own stream and only
\* before the join; it is read only after the join, by the handler.
C7_SingleWriterThenReadOnly ==
    \A a \in accesses :
        /\ a.kind = "write" => (a.by = a.buf /\ a.phase = "run")
        /\ a.kind = "read" => (a.by = "main" /\ a.phase = "joined")

C7_Witness ==
    /\ rpc = "returned"
    /\ \A s \in Streams : \E a \in accesses : a.kind = "write" /\ a.buf = s
    /\ \A s \in Streams : \E a \in accesses : a.kind = "read" /\ a.buf = s

\* C8: when a pipe cannot be created or the start fails, the handler returns
\* with an error diagnostic: the run ends as a failed run.
C8_LaunchFailureIsAnError ==
    (rpc = "returned" /\ (launch.pipes \in Streams \/ launch.start = "failed"))
        => HasError(rdiags)

\* C9: once the argument assembly has produced an error diagnostic (a vault
\* file list without a vault password file), the external process is not
\* launched.
C9_NoLaunchAfterAssemblyError ==
    HasError(cdiags) => (launch.start # "ok" /\ child.status = "none")


(***************************************************************************)
(* Properties of Execute                                                   *)
(***************************************************************************)
\* the diagnostics of the response with the given summary
WithSummary(summary) ==
    { n \in 1..Len(rdiags) : rdiags[n].summary = summary }

\* Execute is past its report of a run that exited non-zero
FailedRunReported ==
    /\ resource = "framework"
    /\ runErr = "exit"
    /\ rpc \in {"cleanup", "executed", "returned"}

\* C3: after a non-zero exit the stdout has been analyzed; there is one
\* 'finished with an error' diagnostic; its detail is the rendered failure
\* block when the report decodes and a failure is detected; when the report
\* does not decode, a separate diagnostic carries the raw stdout and the
\* 'finished' diagnostic carries no rendered block.
C3_FailedRunDiagnostics ==
    FailedRunReported =>
        /\ analysis.done
        /\ \E f \in WithSummary("Ansible playbook command finished with an error") :
              /\ WithSummary("Ansible playbook command finished with an error") = {f}
              /\ rdiags[f].severity = "Error"
              /\ IF analysis.err
                 THEN /\ rdiags[f].detail = <<>>
                      /\ \E d \in WithSummary("Error analyzing result JSON") :
                            /\ d # f
                            /\ rdiags[d].severity = "Error"
                            /\ rdiags[d].detail = <<[stdout |-> buffer]>>
                 ELSE /\ WithSummary("Error analyzing result JSON") = {}
                      /\ rdiags[f].detail =
                            IF analysis.hadFailure THEN analysis.output ELSE <<>>

C3_Witness ==
    /\ FailedRunReported
    /\ ~analysis.err
    /\ analysis.hadFailure
    /\ analysis.output # <<>>

\* the other case of C3: the report of the failed run does not decode
C3_WitnessUndecodable ==
    /\ FailedRunReported
    /\ analysis.err
    /\ WithSummary("Error analyzing result JSON") # {}

\* C10: when a query of the batch has failed, no query of the batch has had
\* its result slot updated, whatever the order the map is iterated in.
C10_NoPartialResults ==
    (resource = "framework" /\ qrun.err) =>
        \A n \in DOMAIN queries : queries[n].Result = config.queries[n].result


\* the strings an error of QueryPlaybookArtifact carries
ErrorStrings(e) == {e.msg, e.cause.kind, e.cause.about}

\* C11: the error produced for a failing artifact query carries the name of
\* the failing query (its key in the query map).
C11_ErrorNamesTheQuery ==
    (resource = "framework" /\ qrun.err) =>
        qrun.failed \in ErrorStrings(qrun.error)


\* the queries of a successful run have been evaluated on a report that
\* decodes
QueriesEvaluated ==
    /\ resource = "framework"
    /\ runErr = "none"
    /\ buffer.json
    /\ analysis.done

StrictMissing(n) ==
    queries[n].JSONPath = ".missing" /\ queries[n].FailOnMissingKey

LenientMissing(n) ==
    queries[n].JSONPath = ".missing" /\ ~queries[n].FailOnMissingKey

\* C12: when a strict query (fail_on_missing_key = true) resolves to nothing,
\* QueryPlaybookArtifact has returned an error, an error diagnostic on
\* artifact_queries is recorded, and the handler returns without writing the
\* state.
C12_StrictMissingFails ==
    [][(/\ rpc = "executed"
        /\ QueriesEvaluated
        /\ \E n \in DOMAIN queries : StrictMissing(n))
       => (/\ qrun.err
           /\ \E d \in 1..Len(rdiags) :
                 /\ rdiags[d].severity = "Error"
                 /\ rdiags[d].summary = "Playbook artifact queries failed"
                 /\ rdiags[d].detail.path = "artifact_queries"
           /\ state' = state)]_vars

C12_Witness ==
    /\ rpc = "returned"
    /\ QueriesEvaluated
    /\ qrun.err
    /\ StrictMissing(qrun.failed)
    /\ qrun.visited # {}
    /\ state = NoState


C14_ArgsDeterministic ==
    (resource = "framework" /\ rpc \notin {"create", "update"}) =>
        \A order \in Perms(DOMAIN config.extraVars) :
            \/ args = ExecArgs(config, order)
            \/ args = ExecArgs(config, order) \o <<"-i", InventoryFile>>


\* the position of the first occurrence of an argument, 0 when it is absent
Pos(x) ==
    IF \E n \in 1..Len(args) : args[n] = x
    THEN CHOOSE n \in 1..Len(args) :
            args[n] = x /\ \A k \in 1..(n - 1) : args[k] # x
    ELSE 0

\* the arguments that are present come in the order of the list
InOrder(list) ==
    \A i, j \in 1..Len(list) :
        (i < j /\ Pos(list[i]) # 0 /\ Pos(list[j]) # 0) => Pos(list[i]) < Pos(list[j])

\* the command line of ansible_playbook2 is complete
Playbook2ArgsBuilt ==
    /\ resource = "playbook2"
    /\ rpc \notin {"create", "update"}

\* C15 as stated: verbosity, the boolean flags (force-handlers, check, diff),
\* the joined tags and limits, the var files, the vault files and the
\* vault-id, the extra variables, and last the playbook and the inventory.
C15_OrderAsStated ==
    Playbook2ArgsBuilt =>
        /\ InOrder(<<CreateVerboseSwitch(config.verbosity), "--force-handlers",
                     "--check", "--diff", "--tags", "--limit", "@vars.yml",
                     "@vault.yml", "--vault-id", "env=prod", config.playbook,
                     InventoryFile>>)
        /\ args[Len(args)] \in {config.playbook, InventoryFile}

\* C15: the command line of ansible_playbook2 is: -i and the inventory file
\* first, then verbosity, --force-handlers, the hostname variable, --tags,
\* --limit, --check, --diff, the var files, the vault files and --vault-id,
\* the extra variables, and last the playbook path.
C15_OrderInCode ==
    Playbook2ArgsBuilt =>
        /\ InOrder(<<"-i", InventoryFile,
                     CreateVerboseSwitch(config.verbosity), "--force-handlers",
                     "hostname=" \o config.name, "--tags", "--limit",
                     "--check", "--diff", "@vars.yml", "@vault.yml",
                     "--vault-id", "env=prod", config.playbook>>)
        /\ args[1] = "-i"
        /\ args[2] = InventoryFile
        /\ args[Len(args)] = config.playbook

C15_Witness ==
    /\ Playbook2ArgsBuilt
    /\ launch.start = "ok"
    /\ \A x \in {"-i", "-vv", "--force-handlers", "hostname=web", "--tags",
                 "--limit", "--check", "--diff", "@vars.yml", "@vault.yml",
                 "--vault-id", "env=prod", "site.yml"} : Pos(x) # 0


(***************************************************************************)
(* The message specification: AnalyzeJSON applied to the report of one     *)
(* failed host whose "msg" fields hold JSON values of every kind.          *)
(***************************************************************************)
\* the JSON values found under "msg"
MsgValues ==
    { NoMsg,
      RawMsg("string", "", <<>>), RawMsg("string", "m", <<>>),
      RawMsg("array", "", <<>>), RawMsg("array", "", <<"m">>),
      RawMsg("array", "", <<"m", "n">>),
      RawMsg("null", "", <<>>), RawMsg("number", "", <<>>),
      RawMsg("object", "", <<>>), RawMsg("bool", "", <<>>) }

\* the report of one failed task on one host, with at most one sub-result
MsgDocs ==
    { [json |-> TRUE,
       plays |-> <<[name |-> "P",
                    tasks |-> <<[name |-> "T",
                                 hosts |-> [h \in {"h1"} |->
                                     RawHost(RawResult(TRUE, msg, "", "boom", ""),
                                             FALSE, results)]]>>]>>,
       stats |-> [h \in {"h1"} |-> [failures |-> 1, unreachable |-> 0]]]
        : msg \in MsgValues,
          results \in {<<>>} \cup
                      { <<RawResult(TRUE, sub, "", "", "")>> : sub \in MsgValues } }

InitMsg ==
    /\ buffer \in MsgDocs
    /\ analysis = NoAnalysis
    /\ RunnerIdle
    /\ ExecuteIdle
    /\ LifeIdle

NextMsg == Analyze

SpecMsg == InitMsg /\ [][NextMsg]_vars

\* the raw "msg" of the host entry of a document of MsgDocs, and of its
\* sub-result
HostMsg == buffer.plays[1].tasks[1].hosts["h1"].msg
SubMsgs ==
    { buffer.plays[1].tasks[1].hosts["h1"].results[k].msg :
        k \in 1..Len(buffer.plays[1].tasks[1].hosts["h1"].results) }

Rendered(line) == \E n \in 1..Len(analysis.output) : analysis.output[n] = line

\* C16: a JSON string under "msg" decodes to the string variant (IsString,
\* the text in StringValue, ArrayValue empty), a JSON array to the list
\* variant (not IsString, the elements in ArrayValue, StringValue empty);
\* hence the renderer prints a Msg line for a non-empty string and never
\* for an array, whatever the array holds.
C16_MsgVariants ==
    (analysis.done /\ buffer \in MsgDocs) =>
        /\ \A raw \in MsgsOf(buffer) :
              LET d == UnmarshalJSON(raw) IN
              /\ raw.kind = "string" =>
                    /\ ~d.err
                    /\ d.m = [IsString |-> TRUE, StringValue |-> raw.str,
                              ArrayValue |-> <<>>]
              /\ raw.kind = "array" =>
                    /\ ~d.err
                    /\ d.m = [IsString |-> FALSE, StringValue |-> "",
                              ArrayValue |-> raw.arr]
        /\ ~analysis.err =>
              \A text \in {"m", "n"} :
                 /\ Rendered(Line("Msg", 6, text)) <=>
                       HostMsg = RawMsg("string", text, <<>>)
                 /\ Rendered(Line("Msg", 8, text)) <=>
                       RawMsg("string", text, <<>>) \in SubMsgs

C16_Witness ==
    /\ analysis.done /\ ~analysis.err
    /\ buffer \in MsgDocs
    /\ HostMsg = RawMsg("string", "m", <<>>)
    /\ SubMsgs = {RawMsg("array", "", <<"m">>)}
    /\ Rendered(Line("Msg", 6, "m"))
    /\ ~Rendered(Line("Msg", 8, "m"))


\* the lines of a rendered summary, as a set, and how often one line occurs
LinesOf(out) == { out[n] : n \in 1..Len(out) }
Occurrences(out, line) == Cardinality({ n \in 1..Len(out) : out[n] = line })
IsScopeHeader(line) == line.kind \in {"PLAY", "TASK"}

\* every iteration order of the host mappings of the analyzed report
HostOrders == [TaskIds(buffer) -> Perms(HostNames)]

\* C17: for a fixed report the rendered summary has, under every iteration
\* order of the host mappings, the same set of lines, the same number of
\* occurrences of every PLAY, TASK and HOST header, the same sequence of
\* PLAY and TASK headers and the same failure flag as the summary that was
\* produced; the stats mapping is only tested for some failing entry.
C17_RenderingIgnoresMapOrder ==
    (analysis.done /\ ~analysis.err) =>
        \A order \in HostOrders :
           LET r == AnalyzeJSON(buffer, order) IN
           /\ ~r.err
           /\ r.hadFailure = analysis.hadFailure
           /\ LinesOf(r.output) = LinesOf(analysis.output)
           /\ Len(r.output) = Len(analysis.output)
           /\ \A line \in LinesOf(r.output) :
                 line.kind \in {"PLAY", "TASK", "HOST"} =>
                    Occurrences(r.output, line) = Occurrences(analysis.output, line)
           /\ SelectSeq(r.output, IsScopeHeader) =
                 SelectSeq(analysis.output, IsScopeHeader)

C17_Witness ==
    /\ analysis.done /\ ~analysis.err /\ analysis.hadFailure
    /\ Occurrences(analysis.output, Line("HOST", 4, "h1")) = 1
    /\ Occurrences(analysis.output, Line("HOST", 4, "h2")) = 1
    /\ Occurrences(analysis.output, Line("TASK", 2, "T")) = 1
    /\ \E order \in HostOrders : AnalyzeJSON(buffer, order).output # analysis.output


\* Execute is past its report of a run that exited with status 0 and left
\* text on stderr
SucceededWithStderr ==
    /\ resource = "framework"
    /\ runErr = "none"
    /\ bufs["stderr"] # <<>>
    /\ rpc \in {"query", "cleanup", "executed", "returned"}

\* C18: after a run that exited with status 0 and wrote to stderr there is
\* one warning 'Stderr from Ansible' carrying the stderr text; the only
\* error diagnostics are those of the queries and of the report decoding;
\* and when neither of these failed the handler writes the state, the
\* stderr text in it.
C18_StderrWarningOnly ==
    SucceededWithStderr =>
        /\ \E w \in WithSummary("Stderr from Ansible") :
              /\ WithSummary("Stderr from Ansible") = {w}
              /\ rdiags[w].severity = "Warning"
              /\ rdiags[w].detail = bufs["stderr"]
        /\ \A n \in 1..Len(rdiags) :
              rdiags[n].severity = "Error" =>
                 \/ rdiags[n].summary = "Playbook artifact queries failed" /\ qrun.err
                 \/ rdiags[n].summary = "Error analyzing result JSON" /\ analysis.err
        /\ (rpc = "returned" /\ ~qrun.err /\ ~analysis.err) =>
              /\ state = rdata
              /\ state.stderr = Known(bufs["stderr"])

C18_Witness ==
    /\ SucceededWithStderr
    /\ rpc = "returned"
    /\ WithSummary("Stderr from Ansible") # {}
    /\ \A n \in 1..Len(rdiags) : rdiags[n].severity = "Warning"
    /\ state = rdata
    /\ state.stderr = Known(<<"warning">>)


\* the step of resourcePlaybook2Update from the join to its return, after a
\* command that ended with an error
Playbook2FailureReported ==
    /\ resource = "playbook2"
    /\ waitErr
    /\ rpc = "report"
    /\ rpc' = "updated"

\* C19: when the command of ansible_playbook2 ended with an error, the
\* update adds one diagnostic whose summary is the stderr text, a warning
\* when ignore_playbook_failure is set and an error when it is not; the
\* only diagnostics after it are those of the removal of the inventory
\* file, and the earlier ones are kept as they were.
C19_IgnorePlaybookFailure ==
    [][Playbook2FailureReported =>
          LET k == Len(rdiags) + 1 IN
          /\ Len(rdiags') >= k
          /\ SubSeq(rdiags', 1, k - 1) = rdiags
          /\ rdiags'[k].severity =
                (IF config.ignorePlaybookFailure THEN "Warning" ELSE "Error")
          /\ rdiags'[k].summary = [stderr |-> bufs["stderr"]]
          /\ \A n \in (k + 1)..Len(rdiags') : rdiags'[n].detail = InventoryFile]_vars

\* an ignored failure of a command that ran: the create returns a warning
\* and no error
C19_Witness ==
    /\ resource = "playbook2"
    /\ rpc = "returned"
    /\ config.ignorePlaybookFailure
    /\ waitErr
    /\ child.status = "exited" /\ child.exit = 1
    /\ bufs["stderr"] # <<>>
    /\ \E n \in 1..Len(rdiags) : rdiags[n].severity = "Warning"
    /\ \A n \in 1..Len(rdiags) : rdiags[n].severity # "Error"


(***************************************************************************)
(* The lifecycle specification: one ansible_playbook2 resource over        *)
(* successive 'terraform apply' runs.  An apply refreshes the resource     *)
(* (ReadContext, when the state holds it), plans, and then calls           *)
(* CreateContext when the state holds no resource, UpdateContext when an   *)
(* attribute differs from the state (no attribute of the schema is         *)
(* ForceNew), and nothing otherwise.  Between applies the practitioner may *)
(* edit the configuration.                                                 *)
(***************************************************************************)
\* the configurations of the resource: BaseConfig with a name and replayable
LifeConfigs ==
    { [f \in DOMAIN BaseConfig \cup {"replayable"} |->
          IF f = "replayable" THEN r
          ELSE IF f = "name" THEN n
          ELSE BaseConfig[f]] : r \in BOOLEAN, n \in {"web", "db"} }

\* the other variables do not take part in the lifecycle
lifeIdleVars ==
    <<reportVars, resource, rpc, cdiags, rdiags, tempFile, launch, procVars,
      rdata, execVars>>

\* the practitioner edits the configuration between two applies
Edit ==
    /\ life.step = "idle"
    /\ \E c \in LifeConfigs \ {config} : config' = c
    /\ UNCHANGED <<args, life, lifeIdleVars>>

\* the refresh of an apply.  resourcePlaybook2Read: replayable is read from
\* the state; if it is set, resourcePlaybookDelete does data.SetId(""), and
\* the resource is gone from the state.  No read without a resource
Read2 ==
    /\ life.step = "idle"
    /\ life.applies < MaxApplies
    /\ life' = IF life.id /\ life.stored.replayable
               THEN [life EXCEPT !.step = "planned", !.id = FALSE,
                                 !.stored = NoStored, !.runsOfId = 0]
               ELSE [life EXCEPT !.step = "planned"]
    /\ UNCHANGED <<config, args, lifeIdleVars>>

\* resourcePlaybook2Create: SetId, the arguments assembled from the
\* configuration and stored in args, then resourcePlaybook2Update, which
\* executes the playbook
Create2 ==
    /\ life.step = "planned"
    /\ ~life.id
    /\ \E order \in Perms(DOMAIN config.extraVars) :
          LET built == Create2Args(config, order).args IN
          /\ args' = <<"-i", InventoryFile>> \o built
          /\ life' = [life EXCEPT !.step = "idle", !.applies = @ + 1,
                                  !.id = TRUE,
                                  !.stored = Stored(config.replayable,
                                                    config.name, built),
                                  !.runs = @ + 1, !.runsOfId = 1]
    /\ UNCHANGED <<config, lifeIdleVars>>

\* resourcePlaybook2Update as UpdateContext, called for an in-place change:
\* the playbook is executed with the args of the state, those of the create
Update2 ==
    /\ life.step = "planned"
    /\ life.id
    /\ <<life.stored.replayable, life.stored.name>> #
          <<config.replayable, config.name>>
    /\ args' = <<"-i", InventoryFile>> \o life.stored.args
    /\ life' = [life EXCEPT !.step = "idle", !.applies = @ + 1,
                            !.stored = Stored(config.replayable, config.name,
                                              life.stored.args),
                            !.runs = @ + 1, !.runsOfId = @ + 1]
    /\ UNCHANGED <<config, lifeIdleVars>>

\* the plan is empty: no handler is called
NoChange ==
    /\ life.step = "planned"
    /\ life.id
    /\ <<life.stored.replayable, life.stored.name>> =
          <<config.replayable, config.name>>
    /\ life' = [life EXCEPT !.step = "idle", !.applies = @ + 1]
    /\ UNCHANGED <<config, args, lifeIdleVars>>

InitLifecycle ==
    /\ buffer = EmptyReport
    /\ analysis = NoAnalysis
    /\ resource = "playbook2"
    /\ config \in LifeConfigs
    /\ rpc = "idle"
    /\ args = <<>>
    /\ cdiags = <<>>
    /\ rdiags = <<>>
    /\ tempFile = "none"
    /\ launch = NoLaunch
    /\ child = [status |-> "none", pending |-> NoWrite, exit |-> 0]
    /\ written = [s \in Streams |-> <<>>]
    /\ pipe = [s \in Streams |-> [data |-> <<>>, closed |-> FALSE]]
    /\ drain = [s \in Streams |-> [state |-> "none", local |-> <<>>]]
    /\ bufs = [s \in Streams |-> <<>>]
    /\ waitErr = FALSE
    /\ joined = FALSE
    /\ accesses = {}
    /\ rdata = NoData
    /\ ExecuteIdle
    /\ LifeIdle

NextLifecycle == Edit \/ Read2 \/ Create2 \/ Update2 \/ NoChange

SpecLifecycle == InitLifecycle /\ [][NextLifecycle]_vars

\* C20: while the state has held a resource whose replayable is false, the
\* playbook has been executed for it once, by its create, and by no later
\* read or update; (with replayable true, a read clears the id and the
\* following apply creates the resource and executes the playbook again).
C20_NotReplayableRunsOnce ==
    (life.id /\ ~life.stored.replayable) => life.runsOfId <= 1

\* the second half of the sentence, which the code does satisfy: a resource
\* stored with replayable = true does not survive the refresh
ReplayableIsRecreated ==
    (life.step = "planned" /\ life.id) => ~life.stored.replayable


\* the plays, and the tasks, of the analyzed report that have a host with
\* failed or unreachable set
QualifyingPlays == { e[1] : e \in Qualifying(buffer) }
QualifyingTasks == { <<e[1], e[2]>> : e \in Qualifying(buffer) }

HeaderCount(kind) ==
    Cardinality({ n \in 1..Len(analysis.output) : analysis.output[n].kind = kind })

\* the lines under the HOST header of an entry: its fields
RECURSIVE SumOver(_, _)
SumOver(S, f) ==
    IF S = {} THEN 0
    ELSE LET x == CHOOSE y \in S : TRUE IN f[x] + SumOver(S \ {x}, f)

HostBlockLines ==
    [e \in Qualifying(buffer) |->
        1 + Len(printFailedInfo(
                   DecodeResult(buffer.plays[e[1]].tasks[e[2]].hosts[e[3]]), 6))]

\* C21: a play none of whose tasks has a host with failed or unreachable set
\* contributes no line, and a task with no such host no TASK header: the
\* output has one PLAY header per play with such a host, one TASK header per
\* task with such a host, the blocks of these hosts and nothing else; the
\* header of one play or task never suppresses that of a later one.
C21_HeadersPerScope ==
    (analysis.done /\ ~analysis.err /\ analysis.hadFailure) =>
        /\ HeaderCount("PLAY") = Cardinality(QualifyingPlays)
        /\ HeaderCount("TASK") = Cardinality(QualifyingTasks)
        /\ Len(analysis.output) =
              Cardinality(QualifyingPlays) + Cardinality(QualifyingTasks)
              + SumOver(Qualifying(buffer), HostBlockLines)
        /\ Qualifying(buffer) = {} => analysis.output = <<>>

\* two plays with a failing host each: both PLAY headers are printed
C21_Witness ==
    /\ analysis.done /\ ~analysis.err /\ analysis.hadFailure
    /\ QualifyingPlays = {1, 2}
    /\ HeaderCount("PLAY") = 2
    /\ HeaderCount("TASK") = 2

\* the other case of C21: a play whose only host has no flag set, next to a
\* play with a failing host
C21_WitnessSilentPlay ==
    /\ analysis.done /\ ~analysis.err /\ analysis.hadFailure
    /\ Len(buffer.plays) = 2
    /\ \E i \in 1..2 :
          /\ QualifyingPlays = {i}
          /\ \A p \in 1..2 : Len(buffer.plays[p].tasks) > 0
                             /\ DOMAIN buffer.plays[p].tasks[1].hosts # {}
    /\ HeaderCount("PLAY") = 1


\* the positions of the lines of one kind in the rendered output
PositionsOf(kind) ==
    { n \in 1..Len(analysis.output) : analysis.output[n].kind = kind }

\* the last header of the given kind before position n (0 when there is none)
HeaderBefore(kind, n) ==
    IF \E p \in PositionsOf(kind) : p < n
    THEN CHOOSE p \in PositionsOf(kind) :
            p < n /\ \A q \in PositionsOf(kind) : q < n => q <= p
    ELSE 0

\* the rank of a header among the headers of its kind, in output order
RankInOutput(kind, p) == Cardinality({ q \in PositionsOf(kind) : q <= p })

\* the rank of a play, and of a task, among those with a qualifying host, in
\* report order
PlayRank(i) == Cardinality({ p \in QualifyingPlays : p <= i })
TaskRank(t) ==
    Cardinality({ u \in QualifyingTasks :
                     u[1] < t[1] \/ (u[1] = t[1] /\ u[2] <= t[2]) })

\* C22: every HOST line follows a TASK header, and the nearest one before it
\* is the header of the task of that host; every TASK header follows a PLAY
\* header, and the nearest one before it is the header of the play of that
\* task; the k-th PLAY header is that of the k-th play with a qualifying
\* host and the k-th TASK header that of the k-th such task, in report order.
C22_HeadersPrecedeTheirBlocks ==
    (analysis.done /\ ~analysis.err) =>
        /\ \A n \in PositionsOf("HOST") :
              LET t == HeaderBefore("TASK", n) IN
              /\ t # 0
              /\ \E task \in QualifyingTasks :
                    /\ TaskRank(task) = RankInOutput("TASK", t)
                    /\ <<task[1], task[2], analysis.output[n].text>>
                          \in Qualifying(buffer)
                    /\ analysis.output[t].text =
                          buffer.plays[task[1]].tasks[task[2]].name
        /\ \A t \in PositionsOf("TASK") :
              LET p == HeaderBefore("PLAY", t) IN
              /\ p # 0
              /\ \E task \in QualifyingTasks :
                    /\ TaskRank(task) = RankInOutput("TASK", t)
                    /\ PlayRank(task[1]) = RankInOutput("PLAY", p)
                    /\ analysis.output[p].text = buffer.plays[task[1]].name

\* one play, two tasks, a different failing host in each
C22_Witness ==
    /\ analysis.done /\ ~analysis.err /\ analysis.hadFailure
    /\ Qualifying(buffer) = {<<1, 1, "h1">>, <<1, 2, "h2">>}
    /\ Cardinality(PositionsOf("TASK")) = 2
    /\ \E n \in PositionsOf("HOST"), k \in PositionsOf("HOST") :
          /\ analysis.output[n].text = "h1" /\ analysis.output[k].text = "h2"
          /\ n < HeaderBefore("TASK", k)


(***************************************************************************)
(* The detail specification: AnalyzeJSON applied to the report of one      *)
(* failed host, over every combination of present and absent fields of the *)
(* host result and over its sub-results.                                   *)
(***************************************************************************)
\* the results of the host entry: every field present or absent, the
\* message of either variant
HostDetails ==
    { RawResult(TRUE, msg, reason, stderr, stdout) :
        msg \in {NoMsg, RawMsg("string", "", <<>>), RawMsg("string", "m", <<>>),
                 RawMsg("array", "", <<"m">>)},
        reason \in {"", "r"}, stderr \in {"", "e"}, stdout \in {"", "o"} }

\* the entries of "results": failed or not, with or without printable fields
SubResults ==
    { RawResult(failed, msg, "", stderr, "") :
        failed \in BOOLEAN,
        msg \in {NoMsg, RawMsg("string", "m", <<>>), RawMsg("array", "", <<"m">>)},
        stderr \in {"", "e"} }

\* "results" absent or empty, or a list of one or two entries
SubResultLists ==
    {<<>>} \cup { <<a>> : a \in SubResults }
           \cup { <<a, b>> : a \in SubResults, b \in SubResults }

DetailDocs ==
    { [json |-> TRUE,
       plays |-> <<[name |-> "P",
                    tasks |-> <<[name |-> "T",
                                 hosts |-> [h \in {"h1"} |->
                                     RawHost(d, FALSE, results)]]>>]>>,
       stats |-> [h \in {"h1"} |-> [failures |-> 1, unreachable |-> 0]]]
        : d \in HostDetails, results \in SubResultLists }

InitDetail ==
    /\ buffer \in DetailDocs
    /\ analysis = NoAnalysis
    /\ RunnerIdle
    /\ ExecuteIdle
    /\ LifeIdle

NextDetail == Analyze

SpecDetail == InitDetail /\ [][NextDetail]_vars

\* the host entry of a document of DetailDocs and its sub-results
TheHost == buffer.plays[1].tasks[1].hosts["h1"]
TheResults == TheHost.results

\* the lines of the output with the given indentation, in order
IndentIs6(line) == line.indent = 6
IndentIs8(line) == line.indent = 8
LinesAt6 == SelectSeq(analysis.output, IndentIs6)
LinesAt8 == SelectSeq(analysis.output, IndentIs8)

\* the fields of a raw result that are printed: a non-empty string message,
\* a non-empty reason, stderr, stdout
PrintedFields(r, indent) ==
    (IF r.msg.kind = "string" /\ r.msg.str # ""
     THEN <<Line("Msg", indent, r.msg.str)>> ELSE <<>>)
    \o (IF r.reason # "" THEN <<Line("Reason", indent, r.reason)>> ELSE <<>>)
    \o (IF r.stderr # "" THEN <<Line("Stderr", indent, r.stderr)>> ELSE <<>>)
    \o (IF r.stdout # "" THEN <<Line("Stdout", indent, r.stdout)>> ELSE <<>>)

\* the lines of the failed entries among the first k sub-results
RECURSIVE FailedLines(_)
FailedLines(k) ==
    IF k = 0 THEN <<>>
    ELSE FailedLines(k - 1) \o
         (IF TheResults[k].failed THEN PrintedFields(TheResults[k], 8) ELSE <<>>)

DetailAnalyzed == analysis.done /\ ~analysis.err /\ buffer \in DetailDocs

\* C23 as stated: a RESULTS sub-block whenever some sub-result has failed
\* set, listing the failed sub-results only.
C23_ResultsBlockAsStated ==
    DetailAnalyzed =>
        /\ Rendered(Line("RESULTS", 6, "")) <=>
              \E k \in 1..Len(TheResults) : TheResults[k].failed
        /\ LinesAt8 = FailedLines(Len(TheResults))

\* C23: for a rendered host a RESULTS sub-block is emitted exactly when some
\* sub-result with failed set has a field that is printed (a non-empty string
\* message, reason, stderr or stdout); the block lists the printed fields of
\* the failed sub-results, in their order, and nothing of a sub-result whose
\* failed flag is false.
C23_ResultsBlockWhenPrintable ==
    DetailAnalyzed =>
        /\ Rendered(Line("RESULTS", 6, "")) <=>
              \E k \in 1..Len(TheResults) :
                 TheResults[k].failed /\ PrintedFields(TheResults[k], 8) # <<>>
        /\ Occurrences(analysis.output, Line("RESULTS", 6, "")) <= 1
        /\ LinesAt8 = FailedLines(Len(TheResults))

\* a failed sub-result with a message next to one that has not failed and
\* has text on stderr: only the first is listed
C23_Witness ==
    /\ DetailAnalyzed
    /\ Len(TheResults) = 2
    /\ TheResults[1] = RawResult(FALSE, NoMsg, "", "e", "")
    /\ TheResults[2] = RawResult(TRUE, RawMsg("string", "m", <<>>), "", "", "")
    /\ Rendered(Line("RESULTS", 6, ""))
    /\ LinesAt8 = <<Line("Msg", 8, "m")>>


\* the lines of the fields of the host itself, under its HOST header
IsField(line) == line.kind # "RESULTS"
IsMsg(line) == line.kind = "Msg"
IsNotMsg(line) == line.kind # "Msg"
HostFieldLines == SelectSeq(LinesAt6, IsField)

\* a message is present: a non-empty string or a non-empty list
MsgPresent(raw) ==
    \/ raw.kind = "string" /\ raw.str # ""
    \/ raw.kind = "array" /\ raw.arr # <<>>

\* C24: under the header of a rendered host there is a Msg line exactly when
\* its message is present, as a string or as a list, and it comes first;
\* then a Reason, a Stderr and a Stdout line, in that order, for each of
\* these fields that is not empty, and no line for an empty one.
C24_PresentFieldsArePrinted ==
    DetailAnalyzed =>
        /\ Len(SelectSeq(HostFieldLines, IsMsg)) =
              (IF MsgPresent(TheHost.msg) THEN 1 ELSE 0)
        /\ \A n \in 1..Len(HostFieldLines) : IsMsg(HostFieldLines[n]) => n = 1
        /\ SelectSeq(HostFieldLines, IsNotMsg) =
              (IF TheHost.reason # ""
               THEN <<Line("Reason", 6, TheHost.reason)>> ELSE <<>>)
              \o (IF TheHost.stderr # ""
                  THEN <<Line("Stderr", 6, TheHost.stderr)>> ELSE <<>>)
              \o (IF TheHost.stdout # ""
                  THEN <<Line("Stdout", 6, TheHost.stdout)>> ELSE <<>>)

\* what the code does: the fields other than a list message are printed
StringFieldsArePrinted ==
    DetailAnalyzed => HostFieldLines = PrintedFields(TheHost, 6)


\* Execute is past Run
RunReported ==
    /\ resource = "framework"
    /\ rpc \in {"cleanup", "executed", "returned"}
    /\ analysis.done

\* the path and the two flags of the declared queries are those of the map
\* handed to QueryPlaybookArtifact and of the model after the batch
QueriesFramed ==
    /\ DOMAIN queries = DOMAIN config.queries
    /\ DOMAIN rdata.queries = DOMAIN config.queries
    /\ \A n \in DOMAIN config.queries :
          /\ queries[n].JSONPath = config.queries[n].jsonpath
          /\ queries[n].FailOnMissingKey = config.queries[n].fail_on_missing_key
          /\ queries[n].JsonOutput = config.queries[n].json_output
          /\ rdata.queries[n].jsonpath = config.queries[n].jsonpath
          /\ rdata.queries[n].fail_on_missing_key =
                config.queries[n].fail_on_missing_key
          /\ rdata.queries[n].json_output = config.queries[n].json_output

\* C25 as stated: in every run each declared query is evaluated exactly
\* once, and only the result slots change.
C25_EachQueryOnceInEveryRun ==
    RunReported =>
        /\ \A n \in DOMAIN config.queries : qrun.evals[n] = 1
        /\ QueriesFramed

\* C25: in every run each declared query is evaluated at most once, against
\* the captured stdout of that run; in a run that exited with status 0 the
\* queries are evaluated until one fails, so each of them exactly once when
\* none fails, and none is evaluated after a non-zero exit; the names, the
\* paths and the two flags of the queries are the same after the batch as
\* before it.
C25_QueriesAtMostOnceAndFramed ==
    RunReported =>
        /\ \A n \in QueryNames :
              /\ qrun.evals[n] <= 1
              /\ qrun.evals[n] = 1 => n \in DOMAIN config.queries
              /\ (qrun.evals[n] = 1 /\ n # qrun.failed) =>
                    (~jsonPath(buffer, Value(config.queries[n])).err
                     /\ queries[n].Result =
                           jsonPath(buffer, Value(config.queries[n])).out)
        /\ (runErr = "none" /\ ~qrun.err) =>
              \A n \in DOMAIN config.queries : qrun.evals[n] = 1
        /\ (runErr = "none" /\ qrun.err) =>
              /\ qrun.evals[qrun.failed] = 1
              /\ jsonPath(buffer, Value(config.queries[qrun.failed])).err
        /\ runErr # "none" => \A n \in QueryNames : qrun.evals[n] = 0
        /\ QueriesFramed

\* a run with two queries, both evaluated, one of them with a result
C25_Witness ==
    /\ RunReported
    /\ rpc = "returned"
    /\ runErr = "none" /\ ~qrun.err
    /\ DOMAIN config.queries = QueryNames
    /\ \A n \in QueryNames : qrun.evals[n] = 1
    /\ \E n \in QueryNames : queries[n].Result # <<>>
    /\ state = rdata

\* the other case of C25: the batch stopped at a strict query, the other
\* query was not evaluated, and the flags are kept
C25_WitnessFailFast ==
    /\ RunReported
    /\ qrun.err
    /\ config.queries[qrun.failed].fail_on_missing_key
    /\ \E n \in DOMAIN config.queries : qrun.evals[n] = 0


\* C26: no error condition of a run aborts the host process; when the
\* temporary inventory file cannot be created the handler is left with an
\* error diagnostic and without a crash.
C26_NoCrash ==
    /\ rpc # "panicked"
    /\ (WithSummary("Failed to create inventory file") # {}
           /\ rpc \notin {"create", "update"})
          => rpc \in {"executed", "returned"}


\* C27: a drain writes only its own buffer; it never appends to the
\* diagnostics list while the other drain is running or appending, so no
\* warning of a drain is lost.
C27_DrainsShareNothing ==
    /\ \A s \in Streams, t \in Streams :
          (s # t /\ drain[s].state = "append")
              => drain[t].state \notin {"running", "append"}
    /\ \A a \in accesses : a.kind = "write" => a.by = a.buf


\* C28: when the update of ansible_playbook returns after it has created the
\* temporary inventory file, the file has been removed, or its removal has
\* been tried and has failed with a diagnostic.
C28_InventoryFileRemoved ==
    (resource = "playbook" /\ rpc = "returned" /\ tempFile = "present") =>
        \E n \in 1..Len(rdiags) : rdiags[n].summary = "Failed to remove file"


\* the response carries an error diagnostic
ErrorReported == \E n \in 1..Len(rdiags) : rdiags[n].severity = "Error"

\* C29: the state changes only in the step in which Create or Update
\* returns from an Execute that has added no error diagnostic, and then it
\* becomes the model of that run; a handler that returns with an error
\* diagnostic leaves the stored state as it was.
C29_StateWrittenOnlyOnSuccess ==
    [][/\ (resource = "framework" /\ state' # state) =>
             /\ rpc = "executed" /\ rpc' = "returned"
             /\ ~ErrorReported
             /\ state' = rdata
       /\ (resource = "framework" /\ rpc = "executed" /\ rpc' = "returned"
              /\ ErrorReported) => state' = state]_vars

\* an update whose run exited non-zero has returned: the state is still the
\* one of the earlier apply
C29_Witness ==
    /\ resource = "framework"
    /\ rpc = "returned"
    /\ runErr = "exit"
    /\ ErrorReported
    /\ state = PriorState
    /\ rdata # PriorState


\* the kinds of JSON value that MsgType.UnmarshalJSON rejects
RejectedKinds == {"number", "object", "bool"}

\* C30: a report with a message that is a number, an object or a boolean, in
\* a host result or in a sub-result, makes AnalyzeJSON return an error with
\* empty output and hadFailure false although the stats record a failure; a
\* report whose messages are strings, arrays, null or absent decodes, and a
\* null message decodes as the list variant with no elements.
C30_OtherKindsFailTheReport ==
    (analysis.done /\ buffer \in MsgDocs) =>
        /\ ~AllStatsZero(buffer)
        /\ (\E raw \in MsgsOf(buffer) : raw.kind \in RejectedKinds) =>
              /\ analysis.err
              /\ analysis.output = <<>>
              /\ ~analysis.hadFailure
        /\ (\A raw \in MsgsOf(buffer) : raw.kind \notin RejectedKinds) =>
              /\ ~analysis.err
              /\ analysis.hadFailure
              /\ Rendered(Line("HOST", 4, "h1"))
        /\ \A raw \in MsgsOf(buffer) :
              raw.kind = "null" =>
                 UnmarshalJSON(raw) =
                    [err |-> FALSE,
                     m |-> [IsString |-> FALSE, StringValue |-> "",
                            ArrayValue |-> <<>>]]

\* a failed host whose message is a number: the whole report is rejected
C30_Witness ==
    /\ analysis.done
    /\ buffer \in MsgDocs
    /\ HostMsg.kind = "number"
    /\ SubMsgs = {}
    /\ analysis.err
    /\ analysis.output = <<>>

\* the other case of C30: a null message, and the report is rendered
C30_WitnessNull ==
    /\ analysis.done
    /\ buffer \in MsgDocs
    /\ HostMsg.kind = "null"
    /\ ~analysis.err
    /\ analysis.hadFailure
    /\ ~Rendered(Line("Msg", 6, ""))

====
